---- MODULE Spec2Model ----
(***************************************************************************)
(* A model of the entity system of src/test/entity-system.js (the second   *)
(* EntitySystem in that file, lines 1148-2156): a packed entity table `e`  *)
(* with one mask word and one offset word per layout table, data tables    *)
(* c0..c9 with their TableState row allocators, enter/exit handlers and    *)
(* the JSON export/import.                                                 *)
(*                                                                         *)
(* Number representation.  JavaScript has two numeric types here:          *)
(*   - BigInt (component masks): modelled by TLA+ integers;                *)
(*   - Number (Float64 cells, row ids, offsets, skipOnRemove): modelled in *)
(*     fixed point, the integer v * Q standing for the Number v.  The row  *)
(*     widths of the configuration are powers of two, so every division    *)
(*     by sizeOf the code performs is exact in Float64 and in Q-units.     *)
(*     The counters rowCounter and removeCounter only ever hold integers   *)
(*     and are kept as plain integers.                                     *)
(* A read outside a typed array, or at a fractional index, yields          *)
(* Undefined; a write there is dropped, as Float64Array does.              *)
(***************************************************************************)
EXTENDS Integers, Sequences, FiniteSets, TLC

-----------------------------------------------------------------------------
(* The configuration the engine is constructed from *)

\* Object.keys(Components), in insertion order
ComponentNames == <<"A", "H", "T", "B", "G">>

\* "Components": component name -> prop names
Components ==
    [A |-> <<"x", "y">>, H |-> <<"h">>, T |-> <<>>, B |-> <<>>, G |-> <<>>]

\* "Layout": one entry per table; size is the initial number of rows
LayoutSize == 2

Layout ==
    << [components |-> <<"A", "H", "T">>, size |-> LayoutSize],
       [components |-> <<"B", "G">>,      size |-> LayoutSize] >>

\* "entityCount": initial number of entity rows
entityCount == 2

-----------------------------------------------------------------------------
(* Bounds of the model *)

\* operations per behaviour
MaxOps == 4

\* handlers registered at a time
MaxHandlers == 2

\* operations before a query
MaxQueried == 3

\* calls on an engine with many components
MaxWideOps == 5

\* calls on an engine with long rows
MaxLongOps == 5

\* operations before a block of the entity macro is entered
MaxBeforeBlock == 2

\* operations before a block and statements of the block
MaxBlock == 4

\* operations of a caller that attaches and detaches components repeatedly
MaxChurn == 6

\* operations of a caller that registers several callbacks, and the callbacks
\* it has registered at a time
MaxOrderedOps == 5
MaxOrdered == 3

\* operations of a caller whose exit callback changes the engine
MaxReentrant == 4

-----------------------------------------------------------------------------
(* Generic helpers *)

Range(f) == { f[i] : i \in DOMAIN f }

Min(S) == CHOOSE x \in S : \A y \in S : x <= y

Max(S) == CHOOSE x \in S : \A y \in S : x >= y

IndexOf(seq, x) == CHOOSE i \in 1..Len(seq) : seq[i] = x

RECURSIVE Pow2(_)
Pow2(n) == IF n = 0 THEN 1 ELSE 2 * Pow2(n - 1)

RECURSIVE BitAndNat(_, _)
BitAndNat(a, b) ==
    IF a = 0 \/ b = 0 THEN 0
    ELSE (a % 2) * (b % 2) + 2 * BitAndNat(a \div 2, b \div 2)

\* BigInt a & b, for b >= 0; a negative a is in two's complement: a & b = b & ~(-a - 1)
BitAnd(a, b) == IF a >= 0 THEN BitAndNat(a, b) ELSE b - BitAndNat(-a - 1, b)

\* BigInt a | b, for a, b >= 0
BitOr(a, b) == a + b - BitAnd(a, b)

\* BigInt a & ~b, for a, b >= 0
BitAndNot(a, b) == a - BitAnd(a, b)

RECURSIVE SumLen(_, _)
\* total number of props of the first k components of a component list
SumLen(names, k) ==
    IF k = 0 THEN 0 ELSE Len(Components[names[k]]) + SumLen(names, k - 1)

-----------------------------------------------------------------------------
(* What the constructor derives from the configuration (static) *)

maskSize == Len(Layout)

Tables == 0..(maskSize - 1)

CompSet == Range(ComponentNames)

\* index of the layout entry that lists the component
ArrayIndexOf(c) == CHOOSE i \in Tables : c \in Range(Layout[i + 1].components)

\* sizeOf of table i: 1 (entity back-reference) + one slot per prop
TableSizeOf(i) ==
    1 + SumLen(Layout[i + 1].components, Len(Layout[i + 1].components))

\* this.components: name -> { name, propNames, arrayIndex, mask }
components ==
    [ c \in CompSet |->
        LET i   == ArrayIndexOf(c)
            pos == IndexOf(Layout[i + 1].components, c)
        IN  [ name       |-> c,
              propNames  |-> Components[c],
              arrayIndex |-> i,
              mask       |-> (IF i = 0 THEN 2 ELSE 1) * Pow2(pos - 1) ] ]

PropSet == UNION { Range(Components[c]) : c \in CompSet }

\* this.componentsByProp: prop name -> { component, name, array, offset, sizeOf, componentMask }
componentsByProp ==
    [ p \in PropSet |->
        LET c   == CHOOSE c \in CompSet : p \in Range(Components[c])
            i   == components[c].arrayIndex
            pos == IndexOf(Layout[i + 1].components, c)
        IN  [ component     |-> c,
              name          |-> p,
              array         |-> i,
              offset        |-> 1 + SumLen(Layout[i + 1].components, pos - 1)
                                  + (IndexOf(Components[c], p) - 1),
              sizeOf        |-> TableSizeOf(i),
              componentMask |-> components[c].mask ] ]

RECURSIVE PropsUpTo(_)
\* the props of the first k components, in declaration order
PropsUpTo(k) ==
    IF k = 0 THEN <<>> ELSE PropsUpTo(k - 1) \o Components[ComponentNames[k]]

\* prop names in the iteration order of the componentsByProp map
PropNames == PropsUpTo(Len(ComponentNames))

\* the tables for which the constructor creates an array and a TableState
DataTables == { i \in Tables : TableSizeOf(i) > 1 }

RECURSIVE CombinedUpTo(_, _)
\* `combined` after the first k components of table i: only components with props add their bit
CombinedUpTo(i, k) ==
    IF k = 0 THEN 0
    ELSE LET c == Layout[i + 1].components[k]
         IN  IF Len(Components[c]) > 0
             THEN BitOr(CombinedUpTo(i, k - 1), components[c].mask)
             ELSE CombinedUpTo(i, k - 1)

CombinedMask(i) == CombinedUpTo(i, Len(Layout[i + 1].components))

entityTableSizeOf == maskSize * 2

-----------------------------------------------------------------------------
(* Numbers *)

\* fixed-point scale: the square of the widest row (sizeOf 4), so that an
\* offset divided twice by sizeOf is still exact
Q == 4 * 4

\* the Number n, n an integer
N(n) == n * Q

\* skipOnRemove = Infinity: larger than every row id
Infinity == 100000000

\* the value of a missing array element or object property
Undefined == -100000001

\* what a Float64 cell holds after undefined was stored into it
NaN == -100000002

\* at === null
Null == -100000003

IsNum(v) == v \notin {Undefined, NaN, Null}

IsInteger(v) == IsNum(v) /\ v # Infinity /\ v % Q = 0

\* v < 0 and v >= 0 as JavaScript compares (false for undefined and NaN)
Lt0(v) == IsNum(v) /\ v < 0

Ge0(v) == IsNum(v) /\ v >= 0

\* ToInt32(v): truncation toward zero; the wrap modulo 2^32 is the identity
\* for every cell value of this configuration (all are below 2^31)
ToInt32(v) ==
    IF ~IsNum(v) \/ v = Infinity THEN 0
    ELSE IF v >= 0 THEN v \div Q ELSE -((-v) \div Q)

\* (v & 1), v a Number
Bit0(v) == ToInt32(v) % 2

\* BigInt(v) throws for undefined and for a fractional Number
BigIntOK(v) == IsInteger(v)

BigInt(v) == v \div Q

\* Number(b), b a BigInt
Number(b) == b * Q

-----------------------------------------------------------------------------
(* Float64Array *)

NewArray(len) == [ i \in 1..len |-> 0 ]

ValidIndex(a, i) == IsInteger(i) /\ i >= 0 /\ i \div Q < Len(a)

\* a[i], i a Number
ArrGet(a, i) == IF ValidIndex(a, i) THEN a[i \div Q + 1] ELSE Undefined

\* a[i] = v, i a Number
ArrSet(a, i, v) ==
    IF ValidIndex(a, i)
    THEN [a EXCEPT ![i \div Q + 1] = IF v = Undefined THEN NaN ELSE v]
    ELSE a

-----------------------------------------------------------------------------
(* TableState *)

EntityTable == -1

TableState(sizeOf, combinedMask) ==
    [ sizeOf        |-> sizeOf,
      rowCounter    |-> 0,
      removeCounter |-> 0,
      combinedMask  |-> combinedMask,
      isEntityTable |-> combinedMask = 0,
      skipOnRemove  |-> Infinity ]

\* entitySystem[tableName] and the TableState that belongs to it
ArrayOf(sys, t) == IF t = EntityTable THEN sys.e ELSE sys.c[t]

StateOf(sys, t) == IF t = EntityTable THEN sys.s ELSE sys.cs[t]

WithArray(sys, t, a) ==
    IF t = EntityTable THEN [sys EXCEPT !.e = a] ELSE [sys EXCEPT !.c[t] = a]

WithState(sys, t, st) ==
    IF t = EntityTable THEN [sys EXCEPT !.s = st] ELSE [sys EXCEPT !.cs[t] = st]

\* the liveness sentinel of the row at `offset` shows empty
Empty(st, array, offset) ==
    IF st.isEntityTable THEN Bit0(ArrGet(array, offset)) = 0
    ELSE Lt0(ArrGet(array, offset))

\* the row ids the scan loop of insertRow visits: skipOnRemove, +1, ... below rowCounter
ScanIds(st) ==
    { i \in { st.skipOnRemove + N(k) : k \in 0..st.rowCounter } : i < N(st.rowCounter) }

\* the array grown to twice its length, old cells copied
Grow(array) == array \o NewArray(Len(array))

\* the end of insertRow: the array doubles when the row is beyond it
insertRowGrow(sys, t, st1, array, id) ==
    [sys |-> WithArray(WithState(sys, t, st1), t,
                       IF id * st1.sizeOf >= N(Len(array)) THEN Grow(array) ELSE array),
     id  |-> id,
     err |-> ""]

\* the scan branch of insertRow: the first empty row, or the throw
insertRowScan(sys, t, st, array, found) ==
    IF found = {}
    THEN [sys |-> sys, id |-> Undefined,
          err |-> "Illegal State: could not find empty slot but removeCounter > 0"]
    ELSE insertRowGrow(sys, t,
                       [st EXCEPT !.removeCounter = @ - 1,
                                  !.skipOnRemove =
                                      IF st.removeCounter - 1 = 0 THEN Infinity ELSE @],
                       array, Min(found))

\* the three branches of insertRow on the TableState st and its array
insertRowAt(sys, t, st, array, at) ==
    IF at # Null
    THEN insertRowGrow(sys, t,
                       IF at > N(st.rowCounter)
                       THEN [st EXCEPT !.rowCounter = (at \div Q) + 1]
                       ELSE st,
                       array, at)
    ELSE IF st.removeCounter > 0
    THEN insertRowScan(sys, t, st, array,
                       { i \in ScanIds(st) : Empty(st, array, i * st.sizeOf) })
    ELSE insertRowGrow(sys, t, [st EXCEPT !.rowCounter = @ + 1], array, N(st.rowCounter))

\* insertRow(at): [sys, id, err]
insertRow(sys, t, at) == insertRowAt(sys, t, StateOf(sys, t), ArrayOf(sys, t), at)

\* (v & ~1) as a Number
ClearBit0(v) == N(ToInt32(v) - Bit0(v))

\* removeRow(row): row is a Number
removeRow(sys, t, row) ==
    LET st     == StateOf(sys, t)
        array  == ArrayOf(sys, t)
        idx    == row * st.sizeOf
        array1 == IF st.isEntityTable
                  THEN ArrSet(array, idx, ClearBit0(ArrGet(array, idx)))
                  ELSE ArrSet(array, idx, N(-1))
        st1    == [st EXCEPT !.removeCounter = @ + 1,
                             !.skipOnRemove = IF row < @ THEN row ELSE @]
    IN  WithArray(WithState(sys, t, st1), t, array1)

-----------------------------------------------------------------------------
(* The engine.  An operation yields [sys, ret, err, fired]: the engine after *)
(* the call, the value returned, the message of the error thrown ("" when    *)
(* the call returns) and the handler invocations the call made, in order.    *)

Result(sys, ret, err, fired) == [sys |-> sys, ret |-> ret, err |-> err, fired |-> fired]

\* new EntitySystem(config)
EntitySystem ==
    [ e  |-> NewArray(entityTableSizeOf * entityCount),
      s  |-> TableState(entityTableSizeOf, 0),
      c  |-> [ i \in DataTables |-> NewArray(TableSizeOf(i) * Layout[i + 1].size) ],
      cs |-> [ i \in DataTables |-> TableState(TableSizeOf(i), CombinedMask(i)) ],
      entryHandlers |-> <<>>,
      exitHandlers  |-> <<>> ]

\* one invocation fn(entity, before, newValue) of a handler
Call(kind, fn, entity, before, newValue) ==
    [kind |-> kind, fn |-> fn, entity |-> entity, before |-> before, newValue |-> newValue]

RECURSIVE runEntryHandlers(_, _, _, _)
\* handlers: sequence of <<mask, fn>>; the invocations in handler order
runEntryHandlers(handlers, entity, before, newValue) ==
    IF handlers = <<>> THEN <<>>
    ELSE LET m  == Head(handlers)[1]
             fn == Head(handlers)[2]
             rest == runEntryHandlers(Tail(handlers), entity, before, newValue)
         IN  IF BitAnd(newValue, m) = m /\ BitAnd(before, m) # m
             THEN <<Call("enter", fn, entity, before, newValue)>> \o rest
             ELSE rest

RECURSIVE runExitHandlers(_, _, _, _)
runExitHandlers(handlers, entity, before, newValue) ==
    IF handlers = <<>> THEN <<>>
    ELSE LET m  == Head(handlers)[1]
             fn == Head(handlers)[2]
             rest == runExitHandlers(Tail(handlers), entity, before, newValue)
         IN  IF BitAnd(newValue, m) # m /\ BitAnd(before, m) = m
             THEN <<Call("exit", fn, entity, before, newValue)>> \o rest
             ELSE rest

RECURSIVE removeHandler(_, _)
\* the handlers whose callback is not handlerFn, in order
removeHandler(handlers, handlerFn) ==
    IF handlers = <<>> THEN <<>>
    ELSE IF Head(handlers)[2] # handlerFn
         THEN <<Head(handlers)>> \o removeHandler(Tail(handlers), handlerFn)
         ELSE removeHandler(Tail(handlers), handlerFn)

\* onEnter(mask, fn) / onExit(mask, fn): the engine with the handler appended
onEnter(sys, m, fn) == [sys EXCEPT !.entryHandlers = Append(@, <<m, fn>>)]

onExit(sys, m, fn) == [sys EXCEPT !.exitHandlers = Append(@, <<m, fn>>)]

\* the cleanup functions onEnter / onExit return
cleanupEnter(sys, fn) == [sys EXCEPT !.entryHandlers = removeHandler(@, fn)]

cleanupExit(sys, fn) == [sys EXCEPT !.exitHandlers = removeHandler(@, fn)]

\* mask() without the test of line 1592: the OR of the bits, whatever the tables
maskUnchecked(names) ==
    LET F[i \in 1..Len(names)] ==
            IF i = 1 THEN components[names[1]].mask
            ELSE BitOr(F[i - 1], components[names[i]].mask)
    IN  [ret |-> F[Len(names)], err |-> ""]

\* mask(components), components an array of names: [ret, err]
mask(names) ==
    LET first == components[names[1]]
        F[i \in 1..Len(names)] ==
            IF i = 1 THEN first.mask ELSE BitOr(F[i - 1], components[names[i]].mask)
    IN  IF \E i \in 2..Len(names) : components[names[i]].arrayIndex # first.arrayIndex
        THEN [ret |-> Undefined,
              err |-> "mask: All given components must belong to the same table"]
        ELSE [ret |-> F[Len(names)], err |-> ""]

\* exists(entity): entity is a Number
exists(sys, entity) == Bit0(ArrGet(sys.e, entity * sys.s.sizeOf)) # 0

\* getPropConfig(name) throws for a name no component declares
KnownProp(name) == name \in DOMAIN componentsByProp

KnownComponent(name) == name \in DOMAIN components

NoSuchProp(name) == "Prop '" \o name \o "' is not in any of the registered components"

\* the operation result r, returning v when it did not throw
Returning(r, v) == IF r.err = "" THEN [r EXCEPT !.ret = v] ELSE r

\* addComponent after insertRow gave ir: the offset word and the back-reference
addComponentRow(sys1, ir, entity, ai, entityRow, fired) ==
    IF ir.err # "" THEN Result(ir.sys, Undefined, ir.err, <<>>)
    ELSE Result([ir.sys EXCEPT
                    !.e = ArrSet(@, entityRow + N(maskSize) + N(ai), ir.id),
                    \* `array` was read before insertRow: after a growth it is the
                    \* replaced array and the write to it never reaches the engine
                    !.c[ai] = IF Len(@) # Len(sys1.c[ai]) THEN @
                              ELSE ArrSet(@, ir.id * ir.sys.cs[ai].sizeOf, entity)],
                Undefined, "", fired)

\* addComponent for the component with config cfg
addComponentTo(sys, entity, cfg) ==
    LET ai        == cfg.arrayIndex
        entityRow == entity * sys.s.sizeOf
        cell      == ArrGet(sys.e, entityRow + N(ai))
        before    == BigInt(cell)
        newValue  == BitOr(before, cfg.mask)
        sys1      == [sys EXCEPT !.e = ArrSet(@, entityRow + N(ai), Number(newValue))]
        fired     == runEntryHandlers(sys.entryHandlers, entity \div Q, before, newValue)
    IN  IF ~BigIntOK(cell) THEN Result(sys, Undefined, "TypeError", <<>>)
        ELSE IF Len(cfg.propNames) > 0
                /\ Lt0(ArrGet(sys1.e, entityRow + N(maskSize) + N(ai)))
        THEN addComponentRow(sys1, insertRow(sys1, ai, Null), entity, ai, entityRow, fired)
        ELSE Result(sys1, Undefined, "", fired)

\* addComponent(entity, name)
addComponent(sys, entity, name) ==
    IF ~KnownComponent(name)
    THEN Result(sys, Undefined, "TypeError", <<>>)
    ELSE addComponentTo(sys, entity, components[name])

\* removeComponent without the test of the remaining components of the table:
\* the row is freed whenever the entity holds one
removeComponentFromAnyRow(sys, entity, cfg) ==
    LET ai        == cfg.arrayIndex
        entityRow == entity * sys.s.sizeOf
        cell      == ArrGet(sys.e, entityRow + N(ai))
        before    == BigInt(cell)
        newValue  == BitAndNot(before, cfg.mask)
        sys1      == [sys EXCEPT !.e = ArrSet(@, entityRow + N(ai), Number(newValue))]
        fired     == runExitHandlers(sys.exitHandlers, entity \div Q, before, newValue)
        row       == ArrGet(sys.e, entityRow + N(maskSize) + N(ai))
    IN  IF ~BigIntOK(cell) THEN Result(sys, Undefined, "TypeError", <<>>)
        ELSE IF ai \in DataTables /\ Ge0(row)
        THEN Result([removeRow([sys1 EXCEPT
                                   !.e = ArrSet(@, entityRow + N(maskSize) + N(ai), N(-1))],
                               ai, row \div sys.cs[ai].sizeOf)
                        EXCEPT !.c[ai] = ArrSet(@, row, N(-1))],
                    Undefined, "", fired)
        ELSE Result(sys1, Undefined, "", fired)

\* removeComponent for the component with config cfg
removeComponentFrom(sys, entity, cfg) ==
    LET ai        == cfg.arrayIndex
        entityRow == entity * sys.s.sizeOf
        cell      == ArrGet(sys.e, entityRow + N(ai))
        before    == BigInt(cell)
        newValue  == BitAndNot(before, cfg.mask)
        sys1      == [sys EXCEPT !.e = ArrSet(@, entityRow + N(ai), Number(newValue))]
        fired     == runExitHandlers(sys.exitHandlers, entity \div Q, before, newValue)
        row       == ArrGet(sys.e, entityRow + N(maskSize) + N(ai))
    IN  IF ~BigIntOK(cell) THEN Result(sys, Undefined, "TypeError", <<>>)
        ELSE IF /\ ai \in DataTables
                /\ BitAnd(newValue, sys.cs[ai].combinedMask) = 0
                /\ Ge0(row)
        THEN Result([removeRow([sys1 EXCEPT
                                   !.e = ArrSet(@, entityRow + N(maskSize) + N(ai), N(-1))],
                               ai, row \div sys.cs[ai].sizeOf)
                        EXCEPT !.c[ai] = ArrSet(@, row, N(-1))],
                    Undefined, "", fired)
        ELSE Result(sys1, Undefined, "", fired)

\* removeComponent(entity, name)
removeComponent(sys, entity, name) ==
    IF ~KnownComponent(name)
    THEN Result(sys, Undefined, "TypeError", <<>>)
    ELSE removeComponentFrom(sys, entity, components[name])

\* one key of a template object: a prop with its value v, "_" with the array a
\* of component names, or "_id" with the id v
Entry(k, v, a) == [k |-> k, v |-> v, a |-> a]

RECURSIVE addTags(_, _, _, _)
RECURSIVE addTagsNext(_, _, _, _)
\* v.forEach(c => this.addComponent(entity, c)) over the names left
addTags(sys, entity, names, fired) ==
    IF names = <<>> THEN Result(sys, Undefined, "", fired)
    ELSE addTagsNext(addComponent(sys, entity, Head(names)), entity, names, fired)

\* after addComponent gave r for the first of the names
addTagsNext(r, entity, names, fired) ==
    IF r.err # "" THEN Result(r.sys, Undefined, r.err, fired \o r.fired)
    ELSE addTags(r.sys, entity, Tail(names), fired \o r.fired)

\* the loop state st = [sys, masks, arrayRows, err, fired] of addComponents
\* after the "_" key, r the result of adding its components
addComponentsTags(st, r) ==
    [st EXCEPT !.sys = r.sys, !.err = r.err, !.fired = @ \o r.fired]

\* a prop key: the offset word and the value are written for the row componentRow
addComponentsWrite(st, sys1, entity, cfg, componentRow, v) ==
    [st EXCEPT
        !.sys = [sys1 EXCEPT
                    !.e = ArrSet(@, entity * sys1.s.sizeOf + N(maskSize) + N(cfg.array),
                                 componentRow * cfg.sizeOf),
                    !.c[cfg.array] = ArrSet(@, componentRow * cfg.sizeOf + N(cfg.offset), v)],
        !.arrayRows[cfg.array] = componentRow,
        !.masks[cfg.array + 1] = BitOr(@, cfg.componentMask)]

\* a prop key of a table the entity has no row in: insertRow gave ir
addComponentsInsert(st, ir, entity, cfg, v) ==
    IF ir.err # "" THEN [st EXCEPT !.err = ir.err]
    ELSE addComponentsWrite(st,
                            [ir.sys EXCEPT
                                !.c[cfg.array] = ArrSet(@, ir.id * cfg.sizeOf, entity)],
                            entity, cfg, ir.id, v)

\* a prop key: the row of its table is the one remembered, the one the offset
\* word names, or a new one
addComponentsProp(st, entity, cfg, v) ==
    LET value == ArrGet(st.sys.e, entity * st.sys.s.sizeOf + N(maskSize) + N(cfg.array))
    IN  IF st.arrayRows[cfg.array] # Undefined
        THEN addComponentsWrite(st, st.sys, entity, cfg, st.arrayRows[cfg.array], v)
        ELSE IF Ge0(value)
        THEN addComponentsWrite(st, st.sys, entity, cfg, value \div cfg.sizeOf, v)
        ELSE addComponentsInsert(st, insertRow(st.sys, cfg.array, Null), entity, cfg, v)

\* the body of the for-in loop of addComponents for one key
addComponentsKey(st, entity, entry) ==
    IF entry.k = "_"
    THEN addComponentsTags(st, addTags(st.sys, entity, entry.a, <<>>))
    ELSE IF entry.k = "_id" THEN st
    ELSE IF ~KnownProp(entry.k) THEN [st EXCEPT !.err = NoSuchProp(entry.k)]
    ELSE addComponentsProp(st, entity, componentsByProp[entry.k], entry.v)

RECURSIVE addComponentsLoop(_, _, _)
addComponentsLoop(st, entity, template) ==
    IF template = <<>> \/ st.err # "" THEN st
    ELSE addComponentsLoop(addComponentsKey(st, entity, Head(template)), entity, Tail(template))

RECURSIVE addComponentsMasks(_, _, _, _, _)
\* the final loop of addComponents over the tables j .. maskSize - 1
addComponentsMasks(sys, entity, masks, j, fired) ==
    IF j >= maskSize THEN Result(sys, Undefined, "", fired)
    ELSE LET entityRow == entity * sys.s.sizeOf
             cell      == ArrGet(sys.e, entityRow + N(j))
             before    == BigInt(cell)
             newValue  == BitOr(before, masks[j + 1])
             e1        == ArrSet(sys.e, entityRow + N(j), Number(newValue))
             calls     == runEntryHandlers(sys.entryHandlers, entity \div Q, before, newValue)
         IN  IF ~BigIntOK(cell) THEN Result(sys, Undefined, "TypeError", fired)
             ELSE addComponentsMasks([sys EXCEPT !.e = e1], entity, masks, j + 1,
                                     fired \o calls)

\* addComponents after the for-in loop ended in the loop state st
addComponentsEnd(st, entity) ==
    IF st.err # "" THEN Result(st.sys, Undefined, st.err, st.fired)
    ELSE addComponentsMasks(st.sys, entity, st.masks, 0, st.fired)

\* addComponents with the mask words `cells` of the entity read
addComponentsFrom(sys, entity, template, cells) ==
    IF \E i \in 1..maskSize : ~BigIntOK(cells[i])
    THEN Result(sys, Undefined, "TypeError", <<>>)
    ELSE addComponentsEnd(
             addComponentsLoop([ sys       |-> sys,
                                 masks     |-> [ i \in 1..maskSize |-> BigInt(cells[i]) ],
                                 arrayRows |-> [ t \in Tables |-> Undefined ],
                                 err       |-> "",
                                 fired     |-> <<>> ],
                               entity, template),
             entity)

\* addComponents(entity, template): template is a sequence of entries in key order
addComponents(sys, entity, template) ==
    addComponentsFrom(sys, entity, template,
                      [ i \in 1..maskSize |-> ArrGet(sys.e, entity * sys.s.sizeOf + N(i - 1)) ])

\* the writes of newEntity into the row of entityId: mask words, then offset words
InitRow(array, entityId, sizeOf) ==
    LET offset == entityId * sizeOf
        word(k) == IF k < maskSize THEN (IF k = 0 THEN N(1) ELSE N(0)) ELSE N(-1)
        F[k \in 0..(2 * maskSize)] ==
            IF k = 0 THEN array ELSE ArrSet(F[k - 1], offset + N(k - 1), word(k - 1))
    IN  F[2 * maskSize]

\* newEntity after the row of entityId was written: the template is applied
newEntityTemplate(sys1, entityId, template) ==
    IF template # <<>>
    THEN Returning(addComponents(sys1, entityId, template), entityId)
    ELSE Result(sys1, entityId, "", <<>>)

\* newEntity after insertRow gave ir
newEntityRow(sys, ir, template) ==
    IF ir.err # "" THEN Result(ir.sys, Undefined, ir.err, <<>>)
    ELSE newEntityTemplate(
             \* `entityArray` was read before insertRow: after a growth it is the
             \* replaced array, too short for the row, and its writes are dropped
             IF Len(ir.sys.e) # Len(sys.e) THEN ir.sys
             ELSE [ir.sys EXCEPT !.e = InitRow(@, ir.id, ir.sys.s.sizeOf)],
             ir.id, template)

\* newEntity(template, id): template a sequence of entries (<<>> for none), id Null or a Number
newEntity(sys, template, id) ==
    IF id # Null /\ exists(sys, id)
    THEN Result(sys, Undefined, "Entity already exists", <<>>)
    ELSE newEntityRow(sys, insertRow(sys, EntityTable, id), template)

RECURSIVE removeEntityLoop(_, _, _, _)
\* the loop of removeEntity over the tables i .. maskSize - 1
removeEntityLoop(sys, entity, i, fired) ==
    IF i >= maskSize THEN Result(sys, Undefined, "", fired)
    ELSE LET offset    == entity * sys.s.sizeOf
             cell      == ArrGet(sys.e, offset + N(i))
             rowOffset == ArrGet(sys.e, offset + N(maskSize) + N(i))
             calls     == runExitHandlers(sys.exitHandlers, entity \div Q, BigInt(cell), 0)
             sys1      == [sys EXCEPT !.e = ArrSet(@, offset + N(maskSize) + N(i), N(-1))]
         IN  IF ~BigIntOK(cell) THEN Result(sys, Undefined, "TypeError", fired)
             ELSE IF Ge0(rowOffset)
             THEN IF i \notin DataTables
                  THEN \* this[TABLE_NAMES[i]] is null
                       Result(sys1, Undefined, "TypeError", fired \o calls)
                  ELSE removeEntityLoop(
                           removeRow([sys1 EXCEPT !.c[i] = ArrSet(@, rowOffset, N(-1))],
                                     i, rowOffset \div sys.cs[i].sizeOf),
                           entity, i + 1, fired \o calls)
             ELSE removeEntityLoop(sys1, entity, i + 1, fired \o calls)

\* removeEntity after the loop over the tables gave r
removeEntityRow(r, entity) ==
    IF r.err # "" THEN r
    ELSE Result(removeRow(r.sys, EntityTable, entity), Undefined, "", r.fired)

\* removeEntity(entity)
removeEntity(sys, entity) == removeEntityRow(removeEntityLoop(sys, entity, 0, <<>>), entity)

\* the read of getValue with the prop config cfg and the offset word read
getValueAt(sys, cfg, componentOffset) ==
    IF IsNum(componentOffset)
    THEN ArrGet(sys.c[cfg.array], componentOffset + N(cfg.offset))
    ELSE Undefined

\* the offset word getValue and setValue read for the prop with config cfg
OffsetOf(sys, entity, cfg) == ArrGet(sys.e, entity * sys.s.sizeOf + N(maskSize) + N(cfg.array))

\* getValue(entity, name): the value returned, Undefined where the read misses the array
getValue(sys, entity, name) ==
    getValueAt(sys, componentsByProp[name],
               OffsetOf(sys, entity, componentsByProp[name]))

\* the write of setValue with the prop config cfg and the offset word read
setValueAt(sys, cfg, componentOffset, value) ==
    IF IsNum(componentOffset)
    THEN Result([sys EXCEPT !.c[cfg.array] =
                    ArrSet(@, componentOffset + N(cfg.offset), value)],
                Undefined, "", <<>>)
    ELSE Result(sys, Undefined, "", <<>>)

\* setValue(entity, name, value)
setValue(sys, entity, name, value) ==
    IF ~KnownProp(name) THEN Result(sys, Undefined, NoSuchProp(name), <<>>)
    ELSE setValueAt(sys, componentsByProp[name],
                    OffsetOf(sys, entity, componentsByProp[name]), value)

\* getPropConfig without the test of what the map returned
getPropConfigUnchecked(name) ==
    [ret |-> IF KnownProp(name) THEN componentsByProp[name] ELSE Undefined, err |-> ""]

\* getPropConfig(name): the config returned, or the message of the error thrown
getPropConfig(name) ==
    IF KnownProp(name) THEN [ret |-> componentsByProp[name], err |-> ""]
    ELSE [ret |-> Undefined, err |-> NoSuchProp(name)]

\* a call of getValue(entity, name), which starts with getPropConfig(name)
getValueCall(sys, entity, name) ==
    IF getPropConfig(name).err # ""
    THEN Result(sys, Undefined, getPropConfig(name).err, <<>>)
    ELSE Result(sys, getValue(sys, entity, name), "", <<>>)

\* tmpArray(size): the module-level array `tmp`, replaced when missing or too
\* short, with its first `size` entries set to 0n
tmpArray(tmp, size) ==
    LET t == IF tmp = <<>> \/ Len(tmp) < size THEN [ i \in 1..size |-> 0 ] ELSE tmp
    IN  [ i \in 1..Len(t) |-> IF i <= size THEN 0 ELSE t[i] ]

RECURSIVE hasNames(_, _)
\* masks[arrayIndex] |= mask for each named component; <<>> when a name is unknown
hasNames(masks, names) ==
    IF names = <<>> THEN masks
    ELSE IF ~KnownComponent(Head(names)) THEN <<>>
    ELSE LET entry == components[Head(names)]
         IN  hasNames([masks EXCEPT ![entry.arrayIndex + 1] = BitOr(@, entry.mask)],
                      Tail(names))

RECURSIVE hasLoop(_, _, _, _)
\* the comparison loop of has from index j on: "true", "false" or "TypeError"
hasLoop(sys, entityRow, masks, j) ==
    IF j >= Len(masks) THEN "true"
    ELSE LET cell == ArrGet(sys.e, entityRow + N(j))
             m    == masks[j + 1]
         IN  IF ~BigIntOK(cell) THEN "TypeError"
             ELSE IF BitAnd(BigInt(cell), m) # m THEN "false"
             ELSE hasLoop(sys, entityRow, masks, j + 1)

\* has(entity, components) with component names; tmp is the module-level array
has(sys, tmp, entity, names) ==
    LET masks == hasNames(tmpArray(tmp, maskSize), names)
    IN  IF masks = <<>> THEN "Error" ELSE hasLoop(sys, entity * sys.s.sizeOf, masks, 0)

\* has(entity, components) with BigInt masks
hasMasks(sys, entity, masks) == hasLoop(sys, entity * sys.s.sizeOf, masks, 0)

RECURSIVE forEachLoop(_, _, _, _)
\* forEach(arrayIndex, mask, fn): the calls fn(i) it makes, in call order;
\* the loop ends early when BigInt() throws for a row outside the array
forEachLoop(sys, arrayIndex, m, i) ==
    IF i >= sys.s.rowCounter THEN <<>>
    ELSE LET cell == ArrGet(sys.e, N(i) * sys.s.sizeOf + N(arrayIndex))
         IN  IF ~BigIntOK(cell) THEN <<>>
             ELSE IF BitAnd(BigInt(cell), m) = m
             THEN <<Call("forEach", "fn", i, 0, 0)>> \o forEachLoop(sys, arrayIndex, m, i + 1)
             ELSE forEachLoop(sys, arrayIndex, m, i + 1)

forEach(sys, arrayIndex, m) == forEachLoop(sys, arrayIndex, m, 0)

\* forEach throws: the mask word of some row below rowCounter is outside the array
forEachThrows(sys, arrayIndex) ==
    \E i \in 0..(sys.s.rowCounter - 1) :
        ~BigIntOK(ArrGet(sys.e, N(i) * sys.s.sizeOf + N(arrayIndex)))

-----------------------------------------------------------------------------
(* JSON export and import *)

RECURSIVE toJSONTags(_, _, _)
\* the names of the tag components of row i, over components k .. in map order
toJSONTags(sys, i, k) ==
    IF k > Len(ComponentNames) THEN <<>>
    ELSE LET cfg      == components[ComponentNames[k]]
             currMask == BigInt(ArrGet(sys.e, N(i) * sys.s.sizeOf + N(cfg.arrayIndex)))
             rest     == toJSONTags(sys, i, k + 1)
         IN  IF Len(cfg.propNames) = 0 /\ BitAnd(currMask, cfg.mask) = cfg.mask
             THEN <<cfg.name>> \o rest
             ELSE rest

RECURSIVE toJSONProps(_, _, _)
\* the prop entries of row i, over props k .. in map order
toJSONProps(sys, i, k) ==
    IF k > Len(PropNames) THEN <<>>
    ELSE LET cfg       == componentsByProp[PropNames[k]]
             rowOffset == N(i) * sys.s.sizeOf
             currMask  == BigInt(ArrGet(sys.e, rowOffset + N(cfg.array)))
             columnRow == ArrGet(sys.e, N(maskSize) + rowOffset + N(cfg.array))
             rest      == toJSONProps(sys, i, k + 1)
         IN  IF BitAnd(currMask, cfg.componentMask) = cfg.componentMask /\ Ge0(columnRow)
             THEN <<Entry(cfg.name, ArrGet(sys.c[cfg.array], columnRow + N(cfg.offset)), <<>>)>>
                  \o rest
             ELSE rest

RECURSIVE toJSONLoop(_, _)
\* the exported entities of rows i .. rowCounter - 1
toJSONLoop(sys, i) ==
    IF i >= sys.s.rowCounter THEN <<>>
    ELSE LET tags   == toJSONTags(sys, i, 1)
             props  == toJSONProps(sys, i, 1)
             entity == <<Entry("_id", N(i), <<>>)>>
                       \o (IF tags # <<>> THEN <<Entry("_", 0, tags)>> ELSE <<>>)
                       \o props
             rest   == toJSONLoop(sys, i + 1)
         IN  IF exists(sys, N(i)) /\ (tags # <<>> \/ props # <<>>)
             THEN <<entity>> \o rest
             ELSE rest

\* toJSON() without a mask filter: json.entities
toJSON(sys) == toJSONLoop(sys, 0)

\* template._id
IdOf(template) == template[1].v

RECURSIVE SortDescending(_)
\* entities.sort((a, b) => b._id - a._id), the ids being distinct
SortDescending(entities) ==
    IF entities = <<>> THEN <<>>
    ELSE LET top == CHOOSE k \in 1..Len(entities) :
                        \A j \in 1..Len(entities) : IdOf(entities[j]) <= IdOf(entities[k])
         IN  <<entities[top]>>
             \o SortDescending([ j \in 1..(Len(entities) - 1) |->
                                   IF j < top THEN entities[j] ELSE entities[j + 1] ])

RECURSIVE fromJSONLoop(_, _)
\* sys.newEntity(template, template._id) for each entity; stops at the first throw
fromJSONLoop(r, entities) ==
    IF entities = <<>> \/ r.err # "" THEN r
    ELSE LET n == newEntity(r.sys, Head(entities), IdOf(Head(entities)))
         IN  fromJSONLoop(Result(n.sys, n.ret, n.err, r.fired \o n.fired), Tail(entities))

\* fromJSON(config, json): [sys, ret, err, fired]
fromJSON(entities) ==
    LET r      == fromJSONLoop(Result(EntitySystem, Undefined, "", <<>>),
                               SortDescending(entities))
        sizeOf == r.sys.s.sizeOf
        rows   == { i \in 0..(Len(r.sys.e) - 1) : i % sizeOf = 0 }
        removeCounter == Cardinality({ i \in rows : Bit0(ArrGet(r.sys.e, N(i))) = 0 })
    IN  IF r.err # "" THEN r
        ELSE Result([r.sys EXCEPT !.s.removeCounter = removeCounter], Undefined, "", r.fired)

-----------------------------------------------------------------------------
(* The state machine: a caller applying the public operations to one engine *)

VARIABLES
    sys,      \* the EntitySystem object
    call,     \* the last operation called, with its arguments
    ret,      \* the value it returned (Undefined for none)
    err,      \* the message of the error it threw, "" when it returned
    fired,    \* the handler invocations it made, in order
    issued,   \* the ids newEntity returned that were not passed to removeEntity since
    handles,  \* the cleanup functions onEnter / onExit returned and the caller still holds
    ops       \* the number of operations called so far

vars == <<sys, call, ret, err, fired, issued, handles, ops>>

\* the values a caller stores into props
Values == { N(5), N(7) }

\* the templates a caller creates entities from and adds components with
Templates ==
    { <<Entry("x", N(5), <<>>)>>,
      <<Entry("h", N(7), <<>>)>>,
      <<Entry("x", N(5), <<>>), Entry("y", N(7), <<>>), Entry("h", N(5), <<>>)>>,
      <<Entry("_", 0, <<"T", "G">>), Entry("h", N(7), <<>>)>> }

\* the rows of the entity table
Rows(s) == 0..((Len(s.e) \div s.s.sizeOf) - 1)

\* the ids exists() is true for
Live(s) == { i \in Rows(s) : exists(s, N(i)) }

\* the table-t mask word of entity i, as a BigInt
MaskWord(s, i, t) == BigInt(ArrGet(s.e, N(i) * s.s.sizeOf + N(t)))

\* the table-t offset word of entity i, a Number
OffsetWord(s, i, t) == ArrGet(s.e, N(i) * s.s.sizeOf + N(maskSize) + N(t))

\* entity i has component c: its bit is set in the mask word of its table
HasComponent(s, i, c) ==
    BitAnd(MaskWord(s, i, components[c].arrayIndex), components[c].mask) # 0

ComponentsOf(s, i) == { c \in CompSet : HasComponent(s, i, c) }

TheCall(op, entity, name, template, value) ==
    [op |-> op, entity |-> entity, name |-> name, template |-> template, value |-> value,
     names |-> <<>>]

\* a call of onEnter / onExit with mask(names) and the callback fn, or of a cleanup function
HandlerCall(op, names, fn, m) ==
    [op |-> op, entity |-> -1, name |-> fn, template |-> <<>>, value |-> m, names |-> names]

Init ==
    /\ sys = EntitySystem
    /\ call = TheCall("new EntitySystem", -1, "", <<>>, 0)
    /\ ret = Undefined
    /\ err = ""
    /\ fired = <<>>
    /\ issued = {}
    /\ handles = {}
    /\ ops = 0

\* the engine and the observations after an operation with result r
Apply(r, c) ==
    /\ sys' = r.sys
    /\ call' = c
    /\ ret' = r.ret
    /\ err' = r.err
    /\ fired' = r.fired
    /\ ops' = ops + 1

\* the engine, the observations and the ids handed out after a newEntity with result r
ApplyNew(r, c) ==
    /\ Apply(r, c)
    /\ issued' = IF r.err = "" THEN issued \cup {r.ret \div Q} ELSE issued
    /\ UNCHANGED handles

NewEntity ==
    /\ ops < MaxOps
    /\ ApplyNew(newEntity(sys, <<>>, Null), TheCall("newEntity", -1, "", <<>>, 0))

NewEntityFrom ==
    /\ ops < MaxOps
    /\ \E template \in Templates :
         ApplyNew(newEntity(sys, template, Null), TheCall("newEntity", -1, "", template, 0))

AddComponent ==
    /\ ops < MaxOps
    /\ \E entity \in Live(sys), name \in CompSet :
         /\ Apply(addComponent(sys, N(entity), name),
                  TheCall("addComponent", entity, name, <<>>, 0))
         /\ UNCHANGED <<issued, handles>>

AddComponents ==
    /\ ops < MaxOps
    /\ \E entity \in Live(sys), template \in Templates :
         /\ Apply(addComponents(sys, N(entity), template),
                  TheCall("addComponents", entity, "", template, 0))
         /\ UNCHANGED <<issued, handles>>

RemoveComponent ==
    /\ ops < MaxOps
    /\ \E entity \in Live(sys), name \in CompSet :
         /\ Apply(removeComponent(sys, N(entity), name),
                  TheCall("removeComponent", entity, name, <<>>, 0))
         /\ UNCHANGED <<issued, handles>>

RemoveEntity ==
    /\ ops < MaxOps
    /\ \E entity \in Live(sys) :
         /\ Apply(removeEntity(sys, N(entity)),
                  TheCall("removeEntity", entity, "", <<>>, 0))
         /\ issued' = issued \ {entity}
         /\ UNCHANGED handles

\* setValue on a prop of a component the entity has (the caller's obligation)
SetValue ==
    /\ ops < MaxOps
    /\ \E entity \in Live(sys), name \in PropSet, value \in Values :
         /\ HasComponent(sys, entity, componentsByProp[name].component)
         /\ Apply(setValue(sys, N(entity), name, value),
                  TheCall("setValue", entity, name, <<>>, value))
         /\ UNCHANGED <<issued, handles>>

Next ==
    \/ NewEntity
    \/ NewEntityFrom
    \/ AddComponent
    \/ AddComponents
    \/ RemoveComponent
    \/ RemoveEntity
    \/ SetValue

Spec == Init /\ [][Next]_vars

-----------------------------------------------------------------------------
(* The same caller, also registering and removing enter / exit handlers *)

\* the callbacks a caller registers
Fns == {"f", "g"}

\* the component combinations a caller watches: onEnter(mask(X), fn)
Watched == { <<"A">>, <<"A", "H">>, <<"B">> }

Handle(kind, names, fn) == [kind |-> kind, names |-> names, fn |-> fn]

OnEnter ==
    /\ ops < MaxOps
    /\ Len(sys.entryHandlers) + Len(sys.exitHandlers) < MaxHandlers
    /\ \E names \in Watched, fn \in Fns :
         /\ sys' = onEnter(sys, mask(names).ret, fn)
         /\ handles' = handles \cup {Handle("enter", names, fn)}
         /\ call' = HandlerCall("onEnter", names, fn, mask(names).ret)
    /\ ret' = Undefined /\ err' = "" /\ fired' = <<>> /\ ops' = ops + 1
    /\ UNCHANGED issued

OnExit ==
    /\ ops < MaxOps
    /\ Len(sys.entryHandlers) + Len(sys.exitHandlers) < MaxHandlers
    /\ \E names \in Watched, fn \in Fns :
         /\ sys' = onExit(sys, mask(names).ret, fn)
         /\ handles' = handles \cup {Handle("exit", names, fn)}
         /\ call' = HandlerCall("onExit", names, fn, mask(names).ret)
    /\ ret' = Undefined /\ err' = "" /\ fired' = <<>> /\ ops' = ops + 1
    /\ UNCHANGED issued

\* the caller calls one of the cleanup functions it holds
Cleanup ==
    /\ ops < MaxOps
    /\ \E h \in handles :
         /\ sys' = IF h.kind = "enter" THEN cleanupEnter(sys, h.fn) ELSE cleanupExit(sys, h.fn)
         /\ handles' = handles \ {h}
         /\ call' = HandlerCall("cleanup " \o h.kind, h.names, h.fn, mask(h.names).ret)
    /\ ret' = Undefined /\ err' = "" /\ fired' = <<>> /\ ops' = ops + 1
    /\ UNCHANGED issued

NextHandlers ==
    \/ OnEnter
    \/ OnExit
    \/ Cleanup
    \/ NewEntity
    \/ NewEntityFrom
    \/ AddComponent
    \/ AddComponents
    \/ RemoveComponent
    \/ RemoveEntity

SpecHandlers == Init /\ [][NextHandlers]_vars

-----------------------------------------------------------------------------
(* The same caller, also creating entities under ids of its choice, as       *)
(* fromJSON does, and asking mask() and forEach().  A query leaves the       *)
(* engine as it is: what can follow it is what can follow the state before   *)
(* it, and a behaviour of this specification ends with its query.            *)

\* the ids a caller passes to newEntity(template, id)
ExplicitIds == 0..3

\* the lists of component names a caller passes to mask()
Named ==
    { <<a>> : a \in CompSet } \cup { <<a, b>> : a, b \in {"A", "H", "G"} }
    \cup { <<"H", "A", "T">>, <<"A", "H", "G">>, <<"B", "G", "B">> }

\* the masks a caller passes to forEach()
ForEachMasks == {1, 2, 6}

\* the templates a caller passes to newEntity(template, id)
TemplatesAt == { <<>>, <<Entry("x", N(5), <<>>)>> }

QueryOps == {"mask", "forEach"}

NewEntityAt ==
    /\ ops < MaxOps
    /\ \E id \in ExplicitIds, template \in TemplatesAt :
         ApplyNew(newEntity(sys, template, N(id)), TheCall("newEntity", id, "", template, 0))

\* mask(names)
Mask ==
    /\ \E names \in Named :
         /\ call' = HandlerCall("mask", names, "", 0)
         /\ ret' = mask(names).ret
         /\ err' = mask(names).err
    /\ fired' = <<>>
    /\ UNCHANGED <<sys, issued, handles, ops>>

\* forEach(arrayIndex, m, fn): `fired` lists the calls fn(i) it made
ForEach ==
    /\ \E arrayIndex \in Tables, m \in ForEachMasks :
         /\ call' = TheCall("forEach", arrayIndex, "fn", <<>>, m)
         /\ fired' = forEach(sys, arrayIndex, m)
         /\ err' = IF forEachThrows(sys, arrayIndex) THEN "TypeError" ELSE ""
    /\ ret' = Undefined
    /\ UNCHANGED <<sys, issued, handles, ops>>

NextQueries ==
    \/ call.op \notin QueryOps /\ ops < MaxQueried /\ Next
    \/ call.op \notin QueryOps /\ ops < MaxQueried /\ NewEntityAt
    \/ call.op \notin QueryOps /\ Mask
    \/ call.op \notin QueryOps /\ ForEach

SpecQueries == Init /\ [][NextQueries]_vars

-----------------------------------------------------------------------------
(* Engines with many components.  The configuration has `count` tag          *)
(* components and no Layout, so that loadConfig puts them all into table 0,  *)
(* and the caller works with one entity, row 0.  A BigInt mask is the set of *)
(* the positions of its bits here, and a Float64 cell holds the Number       *)
(* nearest to the integer stored into it: the mask word of row 0 is the      *)
(* Number with the binary digits `word`, negated when `neg`.                 *)

\* the limit the constructor tests a table's component count against
MaxComponents == 52

\* the significant bits of a Float64
Mantissa == 53

\* the numbers of components of the configurations
Counts == {51, 52, 53}

\* a > b as JavaScript compares a Number or undefined with a Number
Gt(a, b) == a # Undefined /\ a > b

\* components.size, components the Array of a layout entry: an Array has no such property
SizeOf(list) == Undefined

\* the constructor's test of a layout entry with the component list `list`
TooManyComponents(list) == Gt(SizeOf(list), MaxComponents)

\* entry.mask of the component at position pos (1, 2, ...) of table i: the
\* mask starts at 2n in table 0 and at 1n elsewhere, and is shifted once per component
MaskBit(i, pos) == IF i = 0 THEN pos ELSE pos - 1

RECURSIVE AddBit(_, _)
\* the integer S + 2^b
AddBit(S, b) == IF b \in S THEN AddBit(S \ {b}, b + 1) ELSE S \cup {b}

\* Number(S): the Float64 nearest to the integer S, ties to even
Float64(S) ==
    IF S = {} THEN {}
    ELSE LET cut  == Max(S) - (Mantissa - 1)
             kept == { b \in S : b >= cut }
         IN  IF /\ (cut - 1) \in S
                /\ (cut \in S \/ \E b \in S : b < cut - 1)
             THEN AddBit(kept, cut)
             ELSE kept

\* new EntitySystem({ Components }) with `count` components: the engine, or the throw
WideSystem(count) ==
    IF TooManyComponents([ k \in 1..count |-> k ])
    THEN [built |-> FALSE, count |-> 0, word |-> {}, neg |-> FALSE,
          removeCounter |-> 0, skipOnRemove |-> Infinity,
          entryHandlers |-> <<>>, exitHandlers |-> <<>>]
    ELSE [built |-> TRUE, count |-> count, word |-> {}, neg |-> FALSE,
          removeCounter |-> 0, skipOnRemove |-> Infinity,
          entryHandlers |-> <<>>, exitHandlers |-> <<>>]

RECURSIVE runHandlersWide(_, _, _, _)
\* runEntryHandlers (kind "enter") / runExitHandlers (kind "exit") on masks
\* that are sets of bits: (newValue & m) === m is m \subseteq newValue
runHandlersWide(kind, handlers, before, newValue) ==
    IF handlers = <<>> THEN <<>>
    ELSE LET m    == Head(handlers)[1]
             fn   == Head(handlers)[2]
             rest == runHandlersWide(kind, Tail(handlers), before, newValue)
             hit  == IF kind = "enter"
                     THEN m \subseteq newValue /\ ~(m \subseteq before)
                     ELSE ~(m \subseteq newValue) /\ m \subseteq before
         IN  IF hit THEN <<Call(kind, fn, 0, 0, 0)>> \o rest ELSE rest

\* addComponent(0, name), name the component at position pos
addComponentWide(w, pos) ==
    Result([w EXCEPT !.word = Float64(@ \cup {MaskBit(0, pos)})], Undefined, "",
           runHandlersWide("enter", w.entryHandlers, w.word, w.word \cup {MaskBit(0, pos)}))

\* removeComponent(0, name), name the component at position pos
removeComponentWide(w, pos) ==
    Result([w EXCEPT !.word = Float64(@ \ {MaskBit(0, pos)})], Undefined, "",
           runHandlersWide("exit", w.exitHandlers, w.word, w.word \ {MaskBit(0, pos)}))

\* has(0, [name]), name the component at position pos
hasWide(w, pos) == MaskBit(0, pos) \in w.word

\* the bits of an Int32
Int32Bits == 0..31

\* (word & ~1): ToInt32 keeps the low 32 bits of the integer, in two's
\* complement, and the result is the Number of the Int32 with bit 0 cleared
clearBit0Wide(w) ==
    LET low == { b \in w.word : b \in Int32Bits /\ b # 0 }
    IN  IF Max(Int32Bits) \in low
        THEN [w EXCEPT !.neg = TRUE, !.word = AddBit(Int32Bits \ low, 0)]
        ELSE [w EXCEPT !.neg = FALSE, !.word = low]

\* s.removeRow(0) on the entity table
removeRowWide(w) ==
    [clearBit0Wide(w) EXCEPT !.removeCounter = @ + 1,
                             !.skipOnRemove = IF N(0) < @ THEN N(0) ELSE @]

\* removeEntity(0): there is no data table, the exit handlers see the mask
\* word go to 0n, and the row is handed back
removeEntityWide(w) ==
    Result(removeRowWide(w), Undefined, "",
           runHandlersWide("exit", w.exitHandlers, w.word, {}))

InitWide ==
    /\ sys = [built |-> FALSE, count |-> 0, word |-> {}, neg |-> FALSE,
              removeCounter |-> 0, skipOnRemove |-> Infinity,
              entryHandlers |-> <<>>, exitHandlers |-> <<>>]
    /\ call = TheCall("", -1, "", <<>>, 0)
    /\ ret = Undefined
    /\ err = ""
    /\ fired = <<>>
    /\ issued = {}
    /\ handles = {}
    /\ ops = 0

\* the positions of the components the caller works with: the first and the last two
Positions(w) == {1, w.count - 1, w.count}

\* new EntitySystem(config), then onEnter / onExit for the last component
Construct ==
    /\ ~sys.built
    /\ err = ""
    /\ \E count \in Counts :
         /\ sys' = IF WideSystem(count).built
                   THEN [WideSystem(count) EXCEPT
                            !.entryHandlers = << <<{MaskBit(0, count)}, "f">> >>,
                            !.exitHandlers = << <<{MaskBit(0, count)}, "g">> >>]
                   ELSE WideSystem(count)
         /\ call' = TheCall("new EntitySystem", -1, "", <<>>, count)
         /\ err' = IF WideSystem(count).built THEN ""
                   ELSE "There can be at most 52 entities per table."
    /\ ret' = Undefined /\ fired' = <<>> /\ ops' = ops + 1
    /\ UNCHANGED <<issued, handles>>

\* newEntity() on the engine without entities: row 0 gets the exists bit
NewEntityWide ==
    /\ sys.built /\ issued = {}
    /\ sys' = [sys EXCEPT !.word = Float64({0}), !.neg = FALSE,
                          !.removeCounter = 0, !.skipOnRemove = Infinity]
    /\ call' = TheCall("newEntity", -1, "", <<>>, 0)
    /\ ret' = N(0) /\ err' = "" /\ fired' = <<>> /\ ops' = ops + 1
    /\ issued' = {0}
    /\ UNCHANGED handles

AddComponentWide ==
    /\ sys.built /\ issued # {}
    /\ \E pos \in Positions(sys) :
         /\ Apply(addComponentWide(sys, pos), TheCall("addComponent", 0, "", <<>>, pos))
         /\ UNCHANGED <<issued, handles>>

RemoveComponentWide ==
    /\ sys.built /\ issued # {}
    /\ \E pos \in Positions(sys) :
         /\ Apply(removeComponentWide(sys, pos), TheCall("removeComponent", 0, "", <<>>, pos))
         /\ UNCHANGED <<issued, handles>>

RemoveEntityWide ==
    /\ sys.built /\ issued # {}
    /\ Apply(removeEntityWide(sys), TheCall("removeEntity", 0, "", <<>>, 0))
    /\ issued' = {}
    /\ UNCHANGED handles

HasWide ==
    /\ sys.built /\ issued # {}
    /\ \E pos \in Positions(sys) :
         /\ call' = TheCall("has", 0, "", <<>>, pos)
         /\ ret' = IF hasWide(sys, pos) THEN N(1) ELSE N(0)
    /\ err' = "" /\ fired' = <<>> /\ ops' = ops + 1
    /\ UNCHANGED <<sys, issued, handles>>

NextWide ==
    \/ Construct
    \/ ops < MaxWideOps /\ NewEntityWide
    \/ ops < MaxWideOps /\ AddComponentWide
    \/ ops < MaxWideOps /\ RemoveComponentWide
    \/ ops < MaxWideOps /\ HasWide
    \/ ops < MaxWideOps /\ RemoveEntityWide

SpecWide == InitWide /\ [][NextWide]_vars

-----------------------------------------------------------------------------
(* Engines with long rows.  The configuration has one component P with the   *)
(* fields p1 .. p48 and no Layout: one data table c0 whose rows are 49 slots *)
(* wide, large enough (MAX_ENTITY rows) never to grow, and an entity table   *)
(* whose rows are a mask word and an offset word.  Nothing is removed here.  *)
(* The offset arithmetic of the engine, value / sizeOf and componentRow *    *)
(* sizeOf, is Float64 arithmetic; a Number is modelled exactly here, as      *)
(* [neg, bits, exp]: the integer with the 53 binary digits `bits` (the first *)
(* is 1) times 2^exp, negated when neg; zero has no digits.                  *)

\* the number of fields of P
LongFields == 48

\* sizeOf of c0: the back-reference and the fields
LongSizeOf == 1 + LongFields

Zero == [neg |-> FALSE, bits |-> <<>>, exp |-> 0]

Zeros(n) == [ k \in 1..n |-> 0 ]

RECURSIVE Strip(_)
\* the digits without leading zeros
Strip(d) == IF d # <<>> /\ Head(d) = 0 THEN Strip(Tail(d)) ELSE d

RECURSIVE Increment(_)
\* the digits of d + 1, one digit longer when all digits were 1
Increment(d) ==
    IF d = <<>> THEN <<1>>
    ELSE IF d[Len(d)] = 0 THEN [d EXCEPT ![Len(d)] = 1]
    ELSE Increment(SubSeq(d, 1, Len(d) - 1)) \o <<0>>

\* round to nearest, ties to even: the digits d beyond the 53rd, and a
\* positive rest below them when sticky, make the 53 digits kept go up
RoundsUp(d, sticky) ==
    /\ d[Mantissa + 1] = 1
    /\ sticky \/ d[Mantissa] = 1 \/ \E k \in (Mantissa + 2)..Len(d) : d[k] = 1

\* the Number of the rounded digits r: they are 54 when the rounding carried
Normal(neg, r, exp) ==
    IF Len(r) > Mantissa
    THEN [neg |-> neg, bits |-> SubSeq(r, 1, Mantissa), exp |-> exp + 1]
    ELSE [neg |-> neg, bits |-> r, exp |-> exp]

\* the Float64 nearest to (digits d) * 2^exp, d without leading zeros
RoundStripped(neg, d, exp, sticky) ==
    IF d = <<>> THEN Zero
    ELSE IF Len(d) <= Mantissa
    THEN [neg |-> neg, bits |-> d \o Zeros(Mantissa - Len(d)),
          exp |-> exp - (Mantissa - Len(d))]
    ELSE Normal(neg,
                IF RoundsUp(d, sticky) THEN Increment(SubSeq(d, 1, Mantissa))
                ELSE SubSeq(d, 1, Mantissa),
                exp + (Len(d) - Mantissa))

Round(neg, digits, exp, sticky) == RoundStripped(neg, Strip(digits), exp, sticky)

RECURSIVE Digits(_)
\* the binary digits of the natural number n
Digits(n) == IF n = 0 THEN <<>> ELSE Digits(n \div 2) \o <<n % 2>>

\* the Number n, n an integer
FromInt(n) == IF n < 0 THEN Round(TRUE, Digits(-n), 0, FALSE) ELSE Round(FALSE, Digits(n), 0, FALSE)

RECURSIVE DivDigits(_, _, _, _)
\* long division of the digits d by s, the quotient digits q found so far
\* and the remainder rem they leave carried in: <<quotient digits, remainder>>
DivDigits(d, s, rem, q) ==
    IF Len(q) = Len(d) THEN <<q, rem>>
    ELSE DivDigits(d, s, (2 * rem + d[Len(q) + 1]) % s,
                   Append(q, (2 * rem + d[Len(q) + 1]) \div s))

\* the Number of the quotient digits and remainder qr
Quotient(neg, qr, exp) == Round(neg, qr[1], exp, qr[2] # 0)

\* f / s computed to `guard` digits beyond those of f
DivGuarded(f, s, guard) ==
    Quotient(f.neg, DivDigits(f.bits \o Zeros(guard), s, 0, <<>>), f.exp - guard)

\* f / s, s a natural number >= 1: two digits more than s has leave the
\* quotient at least 55 digits, the 53 kept and the two that decide the rounding
Div(f, s) == IF f.bits = <<>> THEN Zero ELSE DivGuarded(f, s, Len(Digits(s)) + 2)

RECURSIVE MulDigits(_, _, _, _, _)
\* the digits of d * s: the digits k, k - 1, ... 1 of d are still to multiply,
\* p holds the digits of the product found so far
MulDigits(d, k, s, carry, p) ==
    IF Len(p) = Len(d) THEN Digits(carry) \o p
    ELSE MulDigits(d, k - 1, s, (d[k] * s + carry) \div 2,
                   <<(d[k] * s + carry) % 2>> \o p)

\* f * s, s a natural number
Mul(f, s) ==
    IF f.bits = <<>> THEN Zero
    ELSE Round(f.neg, MulDigits(f.bits, Len(f.bits), s, 0, <<>>), f.exp, FALSE)

RECURSIVE AddDigits(_, _, _, _, _)
\* the digits of a + b, two digit sequences of the same length: the digits
\* k, k - 1, ... 1 are still to add
AddDigits(a, b, k, carry, p) ==
    IF Len(p) = Len(a) THEN Digits(carry) \o p
    ELSE AddDigits(a, b, k - 1, (a[k] + b[k] + carry) \div 2,
                   <<(a[k] + b[k] + carry) % 2>> \o p)

\* the digits d with leading zeros up to the length n
Pad(d, n) == Zeros(n - Len(d)) \o d

\* a + b for digit sequences of any lengths
Sum(a, b) ==
    AddDigits(Pad(a, Max({Len(a), Len(b)})), Pad(b, Max({Len(a), Len(b)})),
              Max({Len(a), Len(b)}), 0, <<>>)

\* f + n, f a Number >= 0 below 2^53 and n a natural number
Add(f, n) ==
    IF f.bits = <<>> THEN FromInt(n)
    ELSE Round(FALSE, Sum(f.bits, Digits(n) \o Zeros(-f.exp)), f.exp, FALSE)

\* f is an integer Number >= 0 (below 2^31): a canonical index of a typed array
IsIndex(f) ==
    /\ ~f.neg
    /\ \/ f.bits = <<>>
       \/ /\ f.exp <= 0 /\ f.exp > -Mantissa
          /\ \A k \in (Mantissa + f.exp + 1)..Mantissa : f.bits[k] = 0

RECURSIVE ValueOf(_, _)
\* the natural number with the first k digits of d
ValueOf(d, k) == IF k = 0 THEN 0 ELSE 2 * ValueOf(d, k - 1) + d[k]

\* the integer an index is
IndexOf64(f) == IF f.bits = <<>> THEN 0 ELSE ValueOf(f.bits, Mantissa + f.exp)

\* array[i] = v on a typed array with the cells `cells` (those written so
\* far; the others hold 0): dropped when i is no index
Store(cells, i, v) == IF IsIndex(i) THEN (IndexOf64(i) :> v) @@ cells ELSE cells

\* new EntitySystem({ Components: { P: [p1 .. p48] } })
LongSystem ==
    [ e  |-> <<>>,          \* the rows of the entity table below rowCounter
      c  |-> << >>,         \* the cells of c0 written so far
      cs |-> 0 ]            \* rowCounter of c0

\* newEntity(): the next row, with the exists bit and no data row
newEntityLong(w) ==
    Result([w EXCEPT !.e = Append(@, [mask |-> 1, offset |-> FromInt(-1)])],
           Len(w.e), "", <<>>)

\* addComponent(entity, "P"): the mask word, and for an entity without a row
\* the row index as offset word and the back-reference
addComponentLong(w, entity) ==
    IF w.e[entity + 1].offset.neg
    THEN Result([w EXCEPT !.e[entity + 1].mask = BitOr(@, 2),
                          !.e[entity + 1].offset = FromInt(w.cs),
                          !.c = Store(@, Mul(FromInt(w.cs), LongSizeOf), entity),
                          !.cs = @ + 1],
                Undefined, "", <<>>)
    ELSE Result([w EXCEPT !.e[entity + 1].mask = BitOr(@, 2)], Undefined, "", <<>>)

\* addComponents after the row was found: the offset word, the value, the mask word
addComponentsWriteLong(w, entity, componentOffset, offset, v) ==
    Result([w EXCEPT !.e[entity + 1].offset = componentOffset,
                     !.c = Store(@, Add(componentOffset, offset), v),
                     !.e[entity + 1].mask = BitOr(@, 2)],
           Undefined, "", <<>>)

\* addComponents(entity, { p<offset>: v })
addComponentsLong(w, entity, offset, v) ==
    IF ~w.e[entity + 1].offset.neg
    THEN addComponentsWriteLong(w, entity,
                                Mul(Div(w.e[entity + 1].offset, LongSizeOf), LongSizeOf),
                                offset, v)
    ELSE addComponentsWriteLong(
             [w EXCEPT !.c = Store(@, Mul(FromInt(w.cs), LongSizeOf), entity),
                       !.cs = @ + 1],
             entity, Mul(FromInt(w.cs), LongSizeOf), offset, v)

InitLong ==
    /\ sys = LongSystem
    /\ call = TheCall("new EntitySystem", -1, "", <<>>, 0)
    /\ ret = Undefined
    /\ err = ""
    /\ fired = <<>>
    /\ issued = {}
    /\ handles = {}
    /\ ops = 0

\* the fields the caller sets, by their offsets in the row
LongOffsets == {1, LongFields}

\* the values the caller sets them to
LongValues == {5, 7}

NewEntityLong ==
    /\ ops < MaxLongOps
    /\ ApplyNew([newEntityLong(sys) EXCEPT !.ret = N(@)],
                TheCall("newEntity", -1, "", <<>>, 0))

AddComponentLong ==
    /\ ops < MaxLongOps
    /\ \E entity \in issued :
         /\ Apply(addComponentLong(sys, entity), TheCall("addComponent", entity, "P", <<>>, 0))
         /\ UNCHANGED <<issued, handles>>

AddComponentsLong ==
    /\ ops < MaxLongOps
    /\ \E entity \in issued, offset \in LongOffsets, v \in LongValues :
         /\ Apply(addComponentsLong(sys, entity, offset, v),
                  [TheCall("addComponents", entity, "", <<>>, v) EXCEPT !.names = <<offset>>])
         /\ UNCHANGED <<issued, handles>>

NextLong ==
    \/ NewEntityLong
    \/ AddComponentLong
    \/ AddComponentsLong

SpecLong == InitLong /\ [][NextLong]_vars

-----------------------------------------------------------------------------
(* The same caller, also passing field names that no component declares *)

\* the field names the caller looks up
LookupNames == PropSet \cup {"z"}

\* the templates with a field no component declares
UnknownTemplates ==
    { <<Entry("z", N(5), <<>>)>>,
      <<Entry("x", N(5), <<>>), Entry("z", N(7), <<>>)>>,
      <<Entry("_", 0, <<"T">>), Entry("h", N(7), <<>>), Entry("z", N(5), <<>>)>> }

GetPropConfig ==
    /\ \E name \in LookupNames :
         /\ call' = TheCall("getPropConfig", -1, name, <<>>, 0)
         /\ ret' = getPropConfig(name).ret
         /\ err' = getPropConfig(name).err
    /\ fired' = <<>> /\ ops' = ops + 1
    /\ UNCHANGED <<sys, issued, handles>>

GetValue ==
    /\ \E entity \in Live(sys), name \in LookupNames :
         /\ Apply(getValueCall(sys, N(entity), name), TheCall("getValue", entity, name, <<>>, 0))
         /\ UNCHANGED <<issued, handles>>

SetValueOf ==
    /\ \E entity \in Live(sys), name \in LookupNames \ PropSet, value \in Values :
         /\ Apply(setValue(sys, N(entity), name, value),
                  TheCall("setValue", entity, name, <<>>, value))
         /\ UNCHANGED <<issued, handles>>

AddComponentsOf ==
    /\ \E entity \in Live(sys), template \in UnknownTemplates :
         /\ Apply(addComponents(sys, N(entity), template),
                  TheCall("addComponents", entity, "", template, 0))
         /\ UNCHANGED <<issued, handles>>

NextLookup ==
    \/ ops < MaxQueried /\ Next
    \/ ops < MaxQueried /\ GetPropConfig
    \/ ops < MaxQueried /\ GetValue
    \/ ops < MaxQueried /\ SetValueOf
    \/ ops < MaxQueried /\ AddComponentsOf

SpecLookup == Init /\ [][NextLookup]_vars

-----------------------------------------------------------------------------
(* The same caller on an engine that is new or was built by fromJSON, also   *)
(* creating entities under ids of its choice.                                *)

\* an exported entity with the id i: { _id: i, x: 5 }, and one with a tag only
ExportedEntity(i) == <<Entry("_id", N(i), <<>>), Entry("x", N(5), <<>>)>>

ExportedTag(i) == <<Entry("_id", N(i), <<>>), Entry("_", 0, <<"T">>)>>

\* json.entities of the exports a caller imports, ids ascending as toJSON lists them
Exports ==
    { <<>>, <<ExportedEntity(0)>>, <<ExportedEntity(1)>>, <<ExportedTag(0)>>,
      <<ExportedEntity(0), ExportedEntity(1)>>, <<ExportedEntity(0), ExportedTag(1)>>,
      <<ExportedEntity(0), ExportedEntity(2)>>, <<ExportedEntity(1), ExportedEntity(3)>>,
      <<ExportedEntity(0), ExportedEntity(1), ExportedEntity(2)>> }

\* EntitySystem.fromJSON(config, json), the engine the caller goes on with
FromJSON ==
    /\ ops = 0
    /\ \E json \in Exports :
         /\ Apply(fromJSON(json), TheCall("fromJSON", -1, "", json, 0))
         /\ issued' = IF fromJSON(json).err = "" THEN Live(fromJSON(json).sys) ELSE {}
    /\ UNCHANGED handles

NextImport ==
    \/ FromJSON
    \/ err = "" /\ ops < MaxQueried /\ Next
    \/ err = "" /\ ops < MaxQueried /\ NewEntityAt

SpecImport == Init /\ [][NextImport]_vars

-----------------------------------------------------------------------------
(* The entity macro.  $entity(a => { ... }) becomes the statements of the    *)
(* block, preceded by                                                        *)
(*     let _a_T0_ = entitySystem.e[a * sizeOf + maskSize + 0],               *)
(*         _array = entitySystem.c0                                          *)
(* and every a.p in the block, in nested functions too, becomes              *)
(* _array[_a_T0_ + offset of p].  The fields of the configuration are all in *)
(* table 0.  While a block runs, the program state is the block: the engine, *)
(* the entity variable a and _a_T0_; _array is entitySystem.c0 itself, which *)
(* no block of the callers here makes the engine replace by a grown copy.    *)

\* entitySystem.e[a * sizeOf + maskSize + 0], as the macro generates it
rowOffsetOf(es, a) == ArrGet(es.e, N(a) * es.s.sizeOf + N(maskSize + 0))

\* the block entered with the entity variable holding a
Block(es, a) ==
    [es |-> es, a |-> a, aT0 |-> rowOffsetOf(es, a)]

\* _array
arrayOfBlock(b) == b.es.c[0]

\* _a_T0_ + offset
memberIndex(b, name) ==
    IF IsNum(b.aT0) THEN b.aT0 + N(componentsByProp[name].offset) ELSE NaN

\* a.p as an expression: _array[_a_T0_ + offset]
readMember(b, name) == ArrGet(arrayOfBlock(b), memberIndex(b, name))

\* a.p = v: _array[_a_T0_ + offset] = v
writeMember(b, name, v) == [b EXCEPT !.es.c[0] = ArrSet(@, memberIndex(b, name), v)]

\* a = v and a++: the statement, then _a_T0_ = entitySystem.e[a * sizeOf + maskSize + 0]
assignEntity(b, v) == [b EXCEPT !.a = v, !.aT0 = rowOffsetOf(b.es, v)]

\* a call of the engine inside the block that gave r: _a_T0_ stays what it was
callInBlock(b, r) == [b EXCEPT !.es = r.sys]

BlockOps == {"$entity", "a.p", "a.p = v", "a = v", "a++", "a => a.p", "entitySystem.addComponents"}

\* $entity(a => { ... }): the declarations at the start of the block
EnterBlock ==
    /\ \E a \in Live(sys) :
         /\ sys' = Block(sys, a)
         /\ call' = TheCall("$entity", a, "", <<>>, 0)
    /\ ret' = Undefined /\ err' = "" /\ fired' = <<>>
    /\ UNCHANGED <<issued, handles, ops>>

\* the statement a.p, read for its value; call.entity is what a holds
ReadMember ==
    /\ \E name \in PropSet :
         /\ call' = TheCall("a.p", sys.a, name, <<>>, 0)
         /\ ret' = readMember(sys, name)
    /\ err' = "" /\ fired' = <<>> /\ ops' = ops + 1
    /\ UNCHANGED <<sys, issued, handles>>

\* the statement a.p = v
WriteMember ==
    /\ \E name \in PropSet, v \in Values :
         /\ call' = TheCall("a.p = v", sys.a, name, <<>>, v)
         /\ sys' = writeMember(sys, name, v)
    /\ ret' = Undefined /\ err' = "" /\ fired' = <<>> /\ ops' = ops + 1
    /\ UNCHANGED <<issued, handles>>

\* the statement a = v, v another entity id
AssignEntity ==
    /\ \E v \in Live(sys.es) :
         /\ call' = TheCall("a = v", v, "", <<>>, 0)
         /\ sys' = assignEntity(sys, v)
    /\ ret' = Undefined /\ err' = "" /\ fired' = <<>> /\ ops' = ops + 1
    /\ UNCHANGED <<issued, handles>>

\* the statement a++
IncrementEntity ==
    /\ call' = TheCall("a++", sys.a + 1, "", <<>>, 0)
    /\ sys' = assignEntity(sys, sys.a + 1)
    /\ ret' = Undefined /\ err' = "" /\ fired' = <<>> /\ ops' = ops + 1
    /\ UNCHANGED <<issued, handles>>

\* a.p in a function with the parameter a, as in
\* entitySystem.forEach(0, m, a => a.p), called with the entity i;
\* call.entity is what a holds where a.p is evaluated
ReadInCallback ==
    /\ \E i \in Live(sys.es), name \in PropSet :
         /\ call' = TheCall("a => a.p", i, name, <<>>, 0)
         /\ ret' = readMember(sys, name)
    /\ err' = "" /\ fired' = <<>> /\ ops' = ops + 1
    /\ UNCHANGED <<sys, issued, handles>>

\* the statement entitySystem.addComponents(a, template)
AddComponentsInBlock ==
    /\ sys.a \in Live(sys.es)
    /\ \E template \in Templates :
         /\ call' = TheCall("entitySystem.addComponents", sys.a, "", template, 0)
         /\ sys' = callInBlock(sys, addComponents(sys.es, N(sys.a), template))
         /\ err' = addComponents(sys.es, N(sys.a), template).err
    /\ ret' = Undefined /\ fired' = <<>> /\ ops' = ops + 1
    /\ UNCHANGED <<issued, handles>>

NextMacro ==
    \/ call.op \notin BlockOps /\ ops < MaxBeforeBlock /\ Next
    \/ call.op \notin BlockOps /\ EnterBlock
    \/ call.op \in BlockOps /\ err = "" /\ ops < MaxBlock /\ ReadMember
    \/ call.op \in BlockOps /\ err = "" /\ ops < MaxBlock /\ WriteMember
    \/ call.op \in BlockOps /\ err = "" /\ ops < MaxBlock /\ AssignEntity
    \/ call.op \in BlockOps /\ err = "" /\ ops < MaxBlock /\ IncrementEntity
    \/ call.op \in BlockOps /\ err = "" /\ ops < MaxBlock /\ ReadInCallback
    \/ call.op \in BlockOps /\ err = "" /\ ops < MaxBlock /\ AddComponentsInBlock

SpecMacro == Init /\ [][NextMacro]_vars

-----------------------------------------------------------------------------
(* Configurations.  A caller constructs an engine from a configuration whose *)
(* two components list the values below as their field names.  A value is    *)
(* [typeof, value], value its text: the string "x", the number 5.            *)

Str(text) == [typeof |-> "string", value |-> text]

\* the values a configuration lists as field names
PropNameValues ==
    { Str("x"), Str("y"), Str(""), Str("_"), Str("_id"), [typeof |-> "number", value |-> "5"] }

\* the field lists of a component
PropLists ==
    {<<>>} \cup { <<a>> : a \in PropNameValues } \cup { <<a, b>> : a, b \in PropNameValues }

\* the configurations: { Components: { A: [...], B: [...] } }
Configs ==
    { << [name |-> "A", propNames |-> p], [name |-> "B", propNames |-> q] >> :
        p, q \in PropLists }

\* the callback without the lookup of the name in componentsByProp
loadConfigPropUnique(name, byProp) ==
    IF name.typeof # "string" \/ name.value = ""
    THEN "Invalid prop name: Must be a non-empty String"
    ELSE IF name.value = "_" \/ name.value = "_id"
    THEN "Invalid prop name: _ and _id are reserved"
    ELSE ""

\* the callback of propNames.forEach on `name`, byProp the keys of
\* componentsByProp: the message of the error it throws, "" when it returns
loadConfigProp(name, byProp) ==
    IF name.typeof # "string" \/ name.value = ""
    THEN "Invalid prop name: Must be a non-empty String"
    ELSE IF name.value = "_" \/ name.value = "_id"
    THEN "Invalid prop name: _ and _id are reserved"
    ELSE IF name \in byProp
    THEN "Config-Error: already defined"
    ELSE ""

RECURSIVE loadConfigLoop(_, _, _, _)
\* the loop of loadConfig from the field k of the component c on:
\* [err, byProp], the keys of componentsByProp when it returns
loadConfigLoop(config, c, k, byProp) ==
    IF c > Len(config) THEN [err |-> "", byProp |-> byProp]
    ELSE IF k > Len(config[c].propNames) THEN loadConfigLoop(config, c + 1, 1, byProp)
    ELSE IF loadConfigProp(config[c].propNames[k], byProp) # ""
    THEN [err |-> loadConfigProp(config[c].propNames[k], byProp), byProp |-> {}]
    ELSE loadConfigLoop(config, c, k + 1, byProp \cup {config[c].propNames[k]})

\* loadConfig(raw)
loadConfig(config) == loadConfigLoop(config, 1, 1, {})

\* the engine the constructor builds from what loadConfig returned
Configured(loaded) ==
    [built |-> loaded.err = "", componentsByProp |-> loaded.byProp]

InitConfig ==
    /\ sys = [built |-> FALSE, componentsByProp |-> {}]
    /\ call = TheCall("", -1, "", <<>>, 0)
    /\ ret = Undefined
    /\ err = ""
    /\ fired = <<>>
    /\ issued = {}
    /\ handles = {}
    /\ ops = 0

\* new EntitySystem(config): a throw leaves the caller without an engine
ConstructFrom ==
    /\ ops = 0
    /\ \E config \in Configs :
         /\ sys' = Configured(loadConfig(config))
         /\ call' = TheCall("new EntitySystem", -1, "", config, 0)
         /\ err' = loadConfig(config).err
    /\ ret' = Undefined /\ fired' = <<>> /\ ops' = 1
    /\ UNCHANGED <<issued, handles>>

NextConfig == ConstructFrom

SpecConfig == InitConfig /\ [][NextConfig]_vars

-----------------------------------------------------------------------------
(* A caller that attaches and detaches the components with fields over a
   longer run: rows of the data table are freed and reused *)

\* the components the caller attaches and detaches
ChurnNames == {"A", "H"}

\* the template the caller creates entities from
ChurnTemplate == <<Entry("x", N(5), <<>>)>>

ChurnNewEntity ==
    /\ ops < MaxChurn
    /\ \E template \in {<<>>, ChurnTemplate} :
         ApplyNew(newEntity(sys, template, Null), TheCall("newEntity", -1, "", template, 0))

ChurnAddComponent ==
    /\ ops < MaxChurn
    /\ \E entity \in Live(sys), name \in ChurnNames :
         /\ Apply(addComponent(sys, N(entity), name),
                  TheCall("addComponent", entity, name, <<>>, 0))
         /\ UNCHANGED <<issued, handles>>

ChurnRemoveComponent ==
    /\ ops < MaxChurn
    /\ \E entity \in Live(sys), name \in ChurnNames :
         /\ Apply(removeComponent(sys, N(entity), name),
                  TheCall("removeComponent", entity, name, <<>>, 0))
         /\ UNCHANGED <<issued, handles>>

ChurnSetValue ==
    /\ ops < MaxChurn
    /\ \E entity \in Live(sys) :
         /\ HasComponent(sys, entity, "A")
         /\ Apply(setValue(sys, N(entity), "x", N(5)),
                  TheCall("setValue", entity, "x", <<>>, N(5)))
         /\ UNCHANGED <<issued, handles>>

NextChurn ==
    \/ ChurnNewEntity
    \/ ChurnAddComponent
    \/ ChurnRemoveComponent
    \/ ChurnSetValue

SpecChurn == Init /\ [][NextChurn]_vars

-----------------------------------------------------------------------------
(* A caller that registers several callbacks for overlapping masks, removes  *)
(* some of them again, and creates and removes entities that match them.     *)
(* A registration the caller holds is [kind, names, fn, at], `at` the number *)
(* of operations made before it: registrations are ordered by `at`.          *)

\* the component combinations the caller watches, all of table 0
OrderedWatched == { <<"A">>, <<"A", "H">> }

\* the template of the entities the caller creates: components A and H
OrderedTemplate == <<Entry("x", N(5), <<>>), Entry("h", N(7), <<>>)>>

OrderedOnEnter ==
    /\ ops < MaxOrderedOps
    /\ Cardinality(handles) < MaxOrdered
    /\ \E names \in OrderedWatched, fn \in Fns :
         /\ sys' = onEnter(sys, mask(names).ret, fn)
         /\ handles' = handles \cup {[kind |-> "enter", names |-> names, fn |-> fn, at |-> ops]}
         /\ call' = HandlerCall("onEnter", names, fn, mask(names).ret)
    /\ ret' = Undefined /\ err' = "" /\ fired' = <<>> /\ ops' = ops + 1
    /\ UNCHANGED issued

OrderedOnExit ==
    /\ ops < MaxOrderedOps
    /\ Cardinality(handles) < MaxOrdered
    /\ \E names \in OrderedWatched, fn \in Fns :
         /\ sys' = onExit(sys, mask(names).ret, fn)
         /\ handles' = handles \cup {[kind |-> "exit", names |-> names, fn |-> fn, at |-> ops]}
         /\ call' = HandlerCall("onExit", names, fn, mask(names).ret)
    /\ ret' = Undefined /\ err' = "" /\ fired' = <<>> /\ ops' = ops + 1
    /\ UNCHANGED issued

\* the caller calls the cleanup function one of its registrations returned
OrderedCleanup ==
    /\ ops < MaxOrderedOps
    /\ \E h \in handles :
         /\ sys' = IF h.kind = "enter" THEN cleanupEnter(sys, h.fn) ELSE cleanupExit(sys, h.fn)
         /\ handles' = handles \ {h}
         /\ call' = HandlerCall("cleanup " \o h.kind, h.names, h.fn, mask(h.names).ret)
    /\ ret' = Undefined /\ err' = "" /\ fired' = <<>> /\ ops' = ops + 1
    /\ UNCHANGED issued

OrderedNewEntity ==
    /\ ops < MaxOrderedOps
    /\ ApplyNew(newEntity(sys, OrderedTemplate, Null),
                TheCall("newEntity", -1, "", OrderedTemplate, 0))

OrderedRemoveEntity ==
    /\ ops < MaxOrderedOps
    /\ \E entity \in Live(sys) :
         /\ Apply(removeEntity(sys, N(entity)),
                  TheCall("removeEntity", entity, "", <<>>, 0))
         /\ issued' = issued \ {entity}
         /\ UNCHANGED handles

NextOrdered ==
    \/ OrderedOnEnter
    \/ OrderedOnExit
    \/ OrderedCleanup
    \/ OrderedNewEntity
    \/ OrderedRemoveEntity

SpecOrdered == Init /\ [][NextOrdered]_vars

-----------------------------------------------------------------------------
(* A caller whose exit callback changes the engine: the callback "readd"     *)
(* calls addComponent(entity, name) for the component that is being removed. *)
(* Callbacks run inside removeComponent, between its write of the mask word  *)
(* and its release of the row.                                               *)

RECURSIVE runExitCallbacks(_, _, _, _, _, _)
\* runExitHandlers with the callbacks acting on the engine s: [sys, err, fired]
runExitCallbacks(s, handlers, entity, name, before, newValue) ==
    IF handlers = <<>> THEN [sys |-> s, err |-> "", fired |-> <<>>]
    ELSE LET m    == Head(handlers)[1]
             fn   == Head(handlers)[2]
             hit  == BitAnd(newValue, m) # m /\ BitAnd(before, m) = m
             r    == IF hit /\ fn = "readd" THEN addComponent(s, entity, name)
                     ELSE [sys |-> s, ret |-> Undefined, err |-> "", fired |-> <<>>]
             made == IF hit
                     THEN <<Call("exit", fn, entity \div Q, before, newValue)>> \o r.fired
                     ELSE <<>>
             rest == runExitCallbacks(r.sys, Tail(handlers), entity, name, before, newValue)
         IN  IF r.err # "" THEN [sys |-> r.sys, err |-> r.err, fired |-> made]
             ELSE [sys |-> rest.sys, err |-> rest.err, fired |-> made \o rest.fired]

\* the rest of removeComponent, after the callbacks ran and left the engine s:
\* the test uses the newValue computed before them
removeComponentRow(s, entityRow, ai, newValue, made) ==
    LET row == ArrGet(s.e, entityRow + N(maskSize) + N(ai))
    IN  IF /\ ai \in DataTables
           /\ BitAnd(newValue, s.cs[ai].combinedMask) = 0
           /\ Ge0(row)
        THEN [sys   |-> [removeRow([s EXCEPT
                                       !.e = ArrSet(@, entityRow + N(maskSize) + N(ai), N(-1))],
                                   ai, row \div s.cs[ai].sizeOf)
                            EXCEPT !.c[ai] = ArrSet(@, row, N(-1))],
              ret |-> Undefined, err |-> "", fired |-> made]
        ELSE [sys |-> s, ret |-> Undefined, err |-> "", fired |-> made]

\* removeComponent(entity, name) of a component the engine knows, its exit
\* callbacks acting on the engine
removeComponentCalling(s, entity, name) ==
    LET cfg       == components[name]
        ai        == cfg.arrayIndex
        entityRow == entity * s.s.sizeOf
        cell      == ArrGet(s.e, entityRow + N(ai))
        before    == BigInt(cell)
        newValue  == BitAndNot(before, cfg.mask)
        s1        == [s EXCEPT !.e = ArrSet(@, entityRow + N(ai), Number(newValue))]
        ran       == runExitCallbacks(s1, s.exitHandlers, entity, name, before, newValue)
    IN  IF ~BigIntOK(cell)
        THEN [sys |-> s, ret |-> Undefined, err |-> "TypeError", fired |-> <<>>]
        ELSE IF ran.err # ""
        THEN [sys |-> ran.sys, ret |-> Undefined, err |-> ran.err, fired |-> ran.fired]
        ELSE removeComponentRow(ran.sys, entityRow, ai, newValue, ran.fired)

\* onExit(mask([name]), readd), once
OnExitReadd ==
    /\ ops < MaxReentrant
    /\ sys.exitHandlers = <<>>
    /\ \E name \in ChurnNames :
         /\ sys' = onExit(sys, mask(<<name>>).ret, "readd")
         /\ call' = HandlerCall("onExit", <<name>>, "readd", mask(<<name>>).ret)
    /\ ret' = Undefined /\ err' = "" /\ fired' = <<>> /\ ops' = ops + 1
    /\ UNCHANGED <<issued, handles>>

RemoveComponentCalling ==
    /\ ops < MaxReentrant
    /\ \E entity \in Live(sys), name \in ChurnNames :
         /\ Apply(removeComponentCalling(sys, N(entity), name),
                  TheCall("removeComponent", entity, name, <<>>, 0))
         /\ UNCHANGED <<issued, handles>>

NextReentrant ==
    \/ OnExitReadd
    \/ RemoveComponentCalling
    \/ ops < MaxReentrant /\ ChurnNewEntity
    \/ ops < MaxReentrant /\ ChurnAddComponent

SpecReentrant == Init /\ [][NextReentrant]_vars

-----------------------------------------------------------------------------
(* Notions the properties below are stated in *)

\* the operations that act on entities
EntityOps == {"newEntity", "addComponent", "addComponents", "removeComponent", "removeEntity"}

\* strict equality of two values read from the engine (NaN equals nothing)
SameValue(a, b) == a = b /\ a # NaN

\* entity i is live and has every component of the list X
HasAll(s, i, X) == exists(s, N(i)) /\ \A k \in 1..Len(X) : HasComponent(s, i, X[k])

\* the number of invocations of callback fn for entity i among the calls f
CountCalls(f, fn, i) == Cardinality({ k \in 1..Len(f) : f[k].fn = fn /\ f[k].entity = i })

\* the handles of the given kind whose registration is in the handler list `hs`
\* and whose callback is registered there only once
Registrations(kind, hs) ==
    { h \in handles :
        /\ h.kind = kind
        /\ <<mask(h.names).ret, h.fn>> \in Range(hs)
        /\ Cardinality({ k \in 1..Len(hs) : hs[k][2] = h.fn }) = 1 }

\* the lowest id newEntity() should hand out: the first row below rowCounter
\* that is not live, else rowCounter
LowestFree(s) ==
    LET free == { i \in 0..(s.s.rowCounter - 1) : ~exists(s, N(i)) }
    IN  IF free # {} THEN Min(free) ELSE s.s.rowCounter

\* the handlers without the registration <<m, fn>>, the others in their order
WithoutPair(hs, m, fn) == SelectSeq(hs, LAMBDA p : p # <<m, fn>>)

\* the components assigned to table t
ComponentsOfTable(t) == { c \in CompSet : components[c].arrayIndex = t }

-----------------------------------------------------------------------------
(* Properties *)

\* C1: for every reachable engine S, S' = fromJSON(config, S.toJSON()) is built
\* without error; every id that is live in S with at least one component is live
\* in S' with the same component set and the same getValue for every prop of a
\* component it has; every other id is not live in S'.
C1_RoundTrip ==
    LET r   == fromJSON(toJSON(sys))
        ids == Rows(sys) \cup Rows(r.sys)
    IN  /\ r.err = ""
        /\ \A i \in ids :
             IF exists(sys, N(i)) /\ ComponentsOf(sys, i) # {}
             THEN /\ exists(r.sys, N(i))
                  /\ ComponentsOf(r.sys, i) = ComponentsOf(sys, i)
                  /\ \A f \in PropSet :
                       HasComponent(sys, i, componentsByProp[f].component)
                         => SameValue(getValue(r.sys, N(i), f), getValue(sys, N(i), f))
             ELSE ~exists(r.sys, N(i))

\* C2: exists(e) is true exactly for the ids newEntity returned and that were
\* not passed to removeEntity since; in particular right after newEntity
\* returned the id.
C2_ExistsIffIssued ==
    \A i \in Rows(sys) \cup issued : exists(sys, N(i)) <=> i \in issued

\* C3: when newEntity() without a template returns id, the row of id in the
\* engine's current entity table has the exists bit alone in its table-0 mask
\* word, 0 in every other mask word and -1 in every offset word.
C3_FreshRow ==
    (call.op = "newEntity" /\ call.template = <<>> /\ err = "")
    => LET id == ret \div Q
       IN  /\ ArrGet(sys.e, N(id) * sys.s.sizeOf) = N(1)
           /\ \A t \in Tables \ {0} : ArrGet(sys.e, N(id) * sys.s.sizeOf + N(t)) = N(0)
           /\ \A t \in Tables : OffsetWord(sys, id, t) = N(-1)

\* C4: newEntity() without an explicit id returns the lowest id below
\* rowCounter that is not live when there is one, and rowCounter otherwise.
C4_LowestFreeId ==
    [][ (call'.op = "newEntity" /\ err' = "") => ret' = N(LowestFree(sys)) ]_vars

\* C5: a callback registered by onEnter(mask(X), cb) is invoked for an entity
\* exactly once by the call that gives it the last missing component of X (the
\* creating call included), and not at all by any other call.
C5_EnterExactlyOnce ==
    [][ call'.op \in EntityOps =>
          \A h \in Registrations("enter", sys.entryHandlers) : \A i \in Rows(sys') :
              CountCalls(fired', h.fn, i) =
                  IF ~HasAll(sys, i, h.names) /\ HasAll(sys', i, h.names) THEN 1 ELSE 0 ]_vars

\* C6: with several tables, a callback registered by onEnter(mask(X)) for
\* components X of one table is invoked for an entity only by a call before
\* which the entity lacked a component of X and after which it has all of X;
\* a call that only adds components of another table never invokes it.
C6_EnterOnlyForOwnTable ==
    [][ call'.op \in EntityOps =>
          \A h \in Registrations("enter", sys.entryHandlers) : \A i \in Rows(sys') :
              CountCalls(fired', h.fn, i) > 0
                  => (~HasAll(sys, i, h.names) /\ HasAll(sys', i, h.names)) ]_vars

\* C7: a callback registered by onExit(mask(X)) is invoked for an entity by a
\* removeComponent or removeEntity call exactly when the entity had every
\* component of X before the call and lacks one after it, once per such call.
C7_ExitExactlyOnce ==
    [][ call'.op \in {"removeComponent", "removeEntity"} =>
          \A h \in Registrations("exit", sys.exitHandlers) : \A i \in Rows(sys) :
              CountCalls(fired', h.fn, i) =
                  IF HasAll(sys, i, h.names) /\ ~HasAll(sys', i, h.names) THEN 1 ELSE 0 ]_vars

\* C8: calling the handle returned by onEnter(m, cb) or onExit(m, cb) removes
\* only the registration (m, cb): the other registrations of that kind stay, in
\* their order, and the registrations of the other kind are untouched.
C8_CleanupRemovesOnePair ==
    [][ /\ call'.op = "cleanup enter" =>
             /\ sys'.entryHandlers = WithoutPair(sys.entryHandlers, call'.value, call'.name)
             /\ sys'.exitHandlers = sys.exitHandlers
        /\ call'.op = "cleanup exit" =>
             /\ sys'.exitHandlers = WithoutPair(sys.exitHandlers, call'.value, call'.name)
             /\ sys'.entryHandlers = sys.entryHandlers ]_vars

\* the cells of the row of table t that starts at offset o
RowCells(s, t, o) == [ k \in 0..(s.cs[t].sizeOf - 1) |-> ArrGet(s.c[t], o + N(k)) ]

\* C9: removeComponent(e, C) on an entity with a row in C's table frees that
\* row (offset word -1, column 0 of the row -1, removeCounter of the table one
\* higher) if and only if afterwards e has no component assigned to that table;
\* otherwise the offset word, the row and removeCounter are unchanged.
C9_RowFreedIffLastComponent ==
    [][ LET e == call'.entity
            t == components[call'.name].arrayIndex
            o == OffsetWord(sys, e, t)
        IN  (call'.op = "removeComponent" /\ err' = "" /\ t \in DataTables /\ o # N(-1))
            => IF ComponentsOf(sys', e) \cap ComponentsOfTable(t) = {}
               THEN /\ OffsetWord(sys', e, t) = N(-1)
                    /\ ArrGet(sys'.c[t], o) = N(-1)
                    /\ sys'.cs[t].removeCounter = sys.cs[t].removeCounter + 1
               ELSE /\ OffsetWord(sys', e, t) = o
                    /\ RowCells(sys', t, o) = RowCells(sys, t, o)
                    /\ sys'.cs[t].removeCounter = sys.cs[t].removeCounter ]_vars

\* the lists of component names has() is asked about: no name, one name, two
\* names in either order, three names, a repeated name
NameLists ==
    {<<>>} \cup { <<a>> : a \in CompSet } \cup { <<a, b>> : a, b \in CompSet }
    \cup { <<"A", "G", "H">>, <<"B", "T", "B">> }

\* what the module-level array `tmp` can hold when has() is called: nothing
\* yet, the masks of an earlier call on this engine, or the masks of a call on
\* another engine of the module, one with three tables
TmpArrays == { <<>>, <<6, 3>>, <<0, 0, 4>> }

\* the mask arrays has() is asked about, one mask per table
MaskArrays == { <<m0, m1>> : m0 \in {1, 2, 3, 6, 8, 13, 15}, m1 \in 0..3 }

\* C10: for a live entity, has(e, names) is true exactly when e has every named
\* component, whatever tables the names are from; has(e, masks) with one mask
\* per table is true exactly when (w & m) = m for each table's mask word w.
C10_HasIsContainment ==
    \A i \in Live(sys) :
        /\ \A names \in NameLists : \A tmp \in TmpArrays :
             (has(sys, tmp, N(i), names) = "true")
                 <=> (\A k \in 1..Len(names) : HasComponent(sys, i, names[k]))
        /\ \A masks \in MaskArrays :
             (hasMasks(sys, N(i), masks) = "true")
                 <=> (\A t \in Tables : BitAnd(MaskWord(sys, i, t), masks[t + 1]) = masks[t + 1])

RECURSIVE SumMasks(_)
\* the bits of the components of the set S, each once
SumMasks(S) ==
    IF S = {} THEN 0
    ELSE LET c == CHOOSE c \in S : TRUE
         IN  components[c].mask + SumMasks(S \ {c})

\* C11: mask(names) returns the OR of the bits of the named components when
\* they all belong to one table; when two of them belong to different tables
\* it throws, returns no mask and leaves the engine as it was.
C11_MaskOrFails ==
    [][ call'.op = "mask" =>
          LET names  == call'.names
              tables == { components[names[k]].arrayIndex : k \in 1..Len(names) }
          IN  /\ sys' = sys
              /\ IF Cardinality(tables) = 1
                 THEN err' = "" /\ ret' = SumMasks(Range(names))
                 ELSE err' # "" /\ ret' = Undefined ]_vars

\* mask() was asked for components of two tables, on an engine with entities
C11_Witness ==
    /\ call.op = "mask"
    /\ call.names = <<"A", "H", "G">>
    /\ err # ""
    /\ Live(sys) # {}

\* the entities forEach called fn with, in call order
Visited(f) == [ k \in 1..Len(f) |-> f[k].entity ]

\* C12: forEach(t, m, cb) calls cb once, in ascending id order, for each row
\* below rowCounter whose table-t mask word contains m and for no other id;
\* every live entity that has all components of m is among them.
C12_ForEachVisits ==
    call.op = "forEach" =>
        LET t   == call.entity
            m   == call.value
            ids == Visited(fired)
        IN  /\ \A j, k \in 1..Len(ids) : j < k => ids[j] < ids[k]
            /\ Range(ids) = { i \in 0..(sys.s.rowCounter - 1) :
                                 BitAnd(MaskWord(sys, i, t), m) = m }
            /\ \A i \in Live(sys) : BitAnd(MaskWord(sys, i, t), m) = m => i \in Range(ids)

\* C13: constructing an engine from a configuration that assigns more than 52
\* components to one table throws and yields no engine.
C13_RejectsOver52 ==
    (call.op = "new EntitySystem" /\ call.value > MaxComponents) => (err # "" /\ ~sys.built)

\* C14: in every engine the constructor built, every component bit and every
\* mask word written is below 2^53, and adding a component stores exactly the
\* old mask word with the component's bit set.
C14_MasksExact ==
    [][ sys'.built =>
          /\ \A pos \in 1..sys'.count : MaskBit(0, pos) < Mantissa
          /\ \A b \in sys'.word : b < Mantissa
          /\ call'.op = "addComponent"
                => sys'.word = sys.word \cup {MaskBit(0, call'.value)} ]_vars

\* the array `new` is `old` grown: at least twice as long, the old cells in place
Grown(old, new) ==
    /\ Len(new) >= 2 * Len(old)
    /\ \A k \in 1..Len(old) : new[k] = old[k]

\* the entity a call is about: the one it created, or its entity argument
EntityOf(c, r) == IF c.op = "newEntity" THEN r \div Q ELSE c.entity

\* C15: when an insertion makes a table grow, the new table is at least twice
\* as large and holds the old values in place, and what the engine writes for
\* the inserted row is in the engine's current table: the exists bit and the
\* offset words of a new entity, the back-reference of a new data row.
C15_GrowthKeepsWrites ==
    [][ (call'.op \in EntityOps /\ err' = "") =>
          LET e == EntityOf(call', ret')
          IN  /\ Len(sys'.e) # Len(sys.e) =>
                   /\ Grown(sys.e, sys'.e)
                   /\ e \in Rows(sys') \ Rows(sys)
                   /\ exists(sys', N(e))
                   /\ \A t \in Tables :
                        \/ OffsetWord(sys', e, t) = N(-1)
                        \/ ArrGet(sys'.c[t], OffsetWord(sys', e, t)) = N(e)
              /\ \A t \in DataTables :
                   Len(sys'.c[t]) # Len(sys.c[t]) =>
                       /\ Grown(sys.c[t], sys'.c[t])
                       /\ OffsetWord(sys', e, t) >= N(Len(sys.c[t]))
                       /\ ArrGet(sys'.c[t], OffsetWord(sys', e, t)) = N(e) ]_vars

\* the keys of a template that name props
PropEntries(template) == { k \in 1..Len(template) : template[k].k \notin {"_", "_id"} }

\* the components a template gives an entity: the owners of its props and its tags
TemplateComponents(template) ==
    { componentsByProp[template[k].k].component : k \in PropEntries(template) }
    \cup UNION { Range(template[k].a) : k \in { j \in 1..Len(template) : template[j].k = "_" } }

\* C16: after newEntity(template) returned id, each mask word of id is the OR
\* of the exists bit (table 0), the bits of the components owning a template
\* field and the bits of the tags under "_"; for each template field the
\* offset word of its table locates a row whose column 0 holds id and whose
\* slot at the field's offset holds the template's value.
C16_TemplateApplied ==
    (call.op = "newEntity" /\ call.template # <<>> /\ err = "") =>
        LET id    == ret \div Q
            comps == TemplateComponents(call.template)
        IN  /\ \A t \in Tables :
                 ArrGet(sys.e, N(id) * sys.s.sizeOf + N(t)) =
                     Number((IF t = 0 THEN 1 ELSE 0)
                            + SumMasks(comps \cap ComponentsOfTable(t)))
            /\ \A k \in PropEntries(call.template) :
                 LET cfg == componentsByProp[call.template[k].k]
                     o   == OffsetWord(sys, id, cfg.array)
                 IN  /\ Ge0(o)
                     /\ ArrGet(sys.c[cfg.array], o) = N(id)
                     /\ ArrGet(sys.c[cfg.array], o + N(cfg.offset)) = call.template[k].v

\* the pairs of a live entity and a field of a component it has
HeldFields(s) ==
    { <<i, f>> \in Live(s) \X PropSet : HasComponent(s, i, componentsByProp[f].component) }

\* C17: after setValue(e, f, v) on a live entity that has the component of f,
\* getValue(e, f) returns v, and getValue returns what it returned before for
\* every other live entity and field of a component it has.
C17_SetThenGet ==
    [][ (call'.op = "setValue" /\ err' = "") =>
          /\ getValue(sys', N(call'.entity), call'.name) = call'.value
          /\ \A p \in HeldFields(sys) \ {<<call'.entity, call'.name>>} :
               getValue(sys', N(p[1]), p[2]) = getValue(sys, N(p[1]), p[2]) ]_vars

\* C18: setting a field through addComponents on an entity that already has
\* the field's component changes no mask word, no offset word and no
\* allocator counter (and likewise through setValue, which writes only the
\* field's slot).
C18_FieldWriteFrame ==
    [][ (/\ call'.op = "addComponents"
         /\ err' = ""
         /\ BitAnd(sys.e[call'.entity + 1].mask, 2) = 2) =>
          /\ sys'.e = sys.e
          /\ sys'.cs = sys.cs ]_vars

\* the rows of data table t
DataRows(s, t) == 0..((Len(s.c[t]) \div s.cs[t].sizeOf) - 1)

\* C19: addComponent(e, C) for a component C with fields, on an entity without
\* a row in C's table, leaves in e's offset word the slot offset r * rowWidth
\* of a row r of the table, and column 0 of that row holds e.
C19_AddComponentOffset ==
    [][ (/\ call'.op = "addComponent"
         /\ err' = ""
         /\ components[call'.name].propNames # <<>>
         /\ Lt0(OffsetWord(sys, call'.entity, components[call'.name].arrayIndex))) =>
          LET t == components[call'.name].arrayIndex
          IN  \E r \in DataRows(sys', t) :
                /\ OffsetWord(sys', call'.entity, t) = N(r * sys'.cs[t].sizeOf)
                /\ ArrGet(sys'.c[t], N(r * sys'.cs[t].sizeOf)) = N(call'.entity) ]_vars

\* the slots of the data rows of table t below rowCounter whose
\* back-reference names a live entity other than e
RowsOfOthers(s, t, e) ==
    { k \in 1..Len(s.c[t]) :
        /\ (k - 1) \div s.cs[t].sizeOf < s.cs[t].rowCounter
        /\ \E i \in Live(s) \ {e} :
             s.c[t][((k - 1) \div s.cs[t].sizeOf) * s.cs[t].sizeOf + 1] = N(i) }

\* C20: removeEntity(e) on a live entity makes exists(e) false and every
\* offset word of e -1, frees each data row e had (column 0 is -1, the
\* table's removeCounter is one more), counts one removal in the entity table
\* and changes no mask word, offset word or data row of another entity.
C20_RemoveEntity ==
    [][ (/\ call'.op = "removeEntity"
         /\ err' = ""
         /\ call'.entity \in Live(sys)) =>
          LET e == call'.entity
          IN  /\ ~exists(sys', N(e))
              /\ \A t \in Tables : OffsetWord(sys', e, t) = N(-1)
              /\ \A t \in DataTables :
                   IF Ge0(OffsetWord(sys, e, t))
                   THEN /\ ArrGet(sys'.c[t], OffsetWord(sys, e, t)) = N(-1)
                        /\ sys'.cs[t].removeCounter = sys.cs[t].removeCounter + 1
                   ELSE sys'.cs[t].removeCounter = sys.cs[t].removeCounter
              /\ sys'.s.removeCounter = sys.s.removeCounter + 1
              /\ \A i \in Rows(sys) \ {e}, t \in Tables :
                   /\ MaskWord(sys', i, t) = MaskWord(sys, i, t)
                   /\ OffsetWord(sys', i, t) = OffsetWord(sys, i, t)
              /\ \A t \in DataTables :
                   \A k \in RowsOfOthers(sys, t, e) : sys'.c[t][k] = sys.c[t][k] ]_vars

\* the tag names an exported entity carries
TagsOf(entity) ==
    UNION { Range(entity[k].a) : k \in { j \in 1..Len(entity) : entity[j].k = "_" } }

\* the fields an exported entity carries, with their values
FieldsOf(entity) ==
    { <<entity[k].k, entity[k].v>> : k \in { j \in 1..Len(entity) : entity[j].k \notin {"_", "_id"} } }

\* C21: toJSON() lists, in ascending id order and once each, exactly the live
\* entities with at least one component, each with its id, the tag components
\* it has and, for the fields of the components it has, what getValue returns.
C21_ToJSONExact ==
    LET out == toJSON(sys)
    IN  /\ \A k, j \in 1..Len(out) : k < j => IdOf(out[k]) < IdOf(out[j])
        /\ { IdOf(out[k]) : k \in 1..Len(out) }
             = { N(i) : i \in { j \in Live(sys) : ComponentsOf(sys, j) # {} } }
        /\ \A k \in 1..Len(out) :
             LET i == IdOf(out[k]) \div Q
             IN  /\ TagsOf(out[k])
                      = { c \in ComponentsOf(sys, i) : components[c].propNames = <<>> }
                 /\ FieldsOf(out[k])
                      = { <<f, getValue(sys, N(i), f)>> :
                            f \in { g \in PropSet :
                                      HasComponent(sys, i, componentsByProp[g].component) } }

\* C22: newEntity(template, id) with an id that is live throws and leaves the
\* engine as it was; with an id that is not live it returns id, and exists(id)
\* is true afterwards.
C22_NewEntityAtId ==
    [][ (call'.op = "newEntity" /\ call'.entity >= 0) =>
          IF call'.entity \in Live(sys)
          THEN err' # "" /\ sys' = sys
          ELSE /\ err' = ""
               /\ ret' = N(call'.entity)
               /\ exists(sys', N(call'.entity)) ]_vars

\* the places (component, position) of the field names of a configuration
Places(config) ==
    UNION { { <<c, k>> : k \in 1..Len(config[c].propNames) } : c \in 1..Len(config) }

NameAt(config, p) == config[p[1]].propNames[p[2]]

\* a field name is declared more than once
DeclaredTwice(config) ==
    \E p, q \in Places(config) : p # q /\ NameAt(config, p) = NameAt(config, q)

\* a field name is empty, no string, or one of the reserved keys
BadName(config) ==
    \E p \in Places(config) :
        \/ NameAt(config, p).typeof # "string"
        \/ NameAt(config, p).value \in {"", "_", "_id"}

\* C23: the constructor throws and builds no engine when a field name is
\* declared more than once, is empty, is no string, or is "_" or "_id".
C23_RejectsBadFieldNames ==
    [][ (call'.op = "new EntitySystem"
         /\ (DeclaredTwice(call'.template) \/ BadName(call'.template))) =>
          err' # "" /\ ~sys'.built ]_vars

\* a configuration whose components A and B both declare x, and no bad name, was rejected
C23_Witness ==
    /\ call.op = "new EntitySystem"
    /\ call.template = << [name |-> "A", propNames |-> <<Str("x"), Str("y")>>],
                          [name |-> "B", propNames |-> <<Str("x")>>] >>
    /\ err = "Config-Error: already defined"
    /\ ~sys.built

\* the keys of a template are all fields of components or reserved keys
KnownKeys(template) ==
    \A k \in 1..Len(template) : template[k].k \in PropSet \cup {"_", "_id"}

\* C24: getPropConfig, getValue, setValue and addComponents throw for a field
\* name that no component declares, and getPropConfig, returning or throwing,
\* leaves the engine as it was.
C24_UnknownFieldFails ==
    [][ /\ (call'.op \in {"getPropConfig", "getValue", "setValue"}
            /\ call'.name \notin PropSet) => err' # ""
        /\ (call'.op = "addComponents" /\ ~KnownKeys(call'.template)) => err' # ""
        /\ call'.op = "getPropConfig" => sys' = sys ]_vars

\* getPropConfig("z") threw on an engine with a live entity
C24_Witness ==
    /\ call.op = "getPropConfig"
    /\ call.name = "z"
    /\ err = NoSuchProp("z")
    /\ Live(sys) # {}

\* C25: inside a $entity block every a.p addresses the cell getValue / setValue
\* address for the entity id a holds where a.p is evaluated: the index into
\* the table is that entity's offset word plus the field's offset.
C25_MemberIsGetValue ==
    [][ call'.op \in {"a.p", "a.p = v", "a => a.p"} =>
          memberIndex(sys, call'.name)
               = IF IsNum(OffsetOf(sys.es, N(call'.entity), componentsByProp[call'.name]))
                 THEN OffsetOf(sys.es, N(call'.entity), componentsByProp[call'.name])
                      + N(componentsByProp[call'.name].offset)
                 ELSE NaN ]_vars

\* the rows of table t below rowCounter whose liveness sentinel is cleared
ClearedRows(s, t) ==
    { i \in 0..(StateOf(s, t).rowCounter - 1) :
        Empty(StateOf(s, t), ArrayOf(s, t), N(i) * StateOf(s, t).sizeOf) }

\* C26: in the entity table and in every data table, removeCounter is the
\* number of rows below rowCounter whose liveness sentinel is cleared.
C26_RemoveCounterCounts ==
    \A t \in {EntityTable} \cup DataTables :
        StateOf(sys, t).removeCounter = Cardinality(ClearedRows(sys, t))

\* C27: for every live entity e and table t where e's offset word o is not
\* -1, o is a multiple of the row width inside the table, column 0 of the row
\* at o holds e, and no other live entity has the offset word o for t.
C27_OffsetWordsOwnRows ==
    \A e \in Live(sys), t \in Tables :
        OffsetWord(sys, e, t) # N(-1) =>
            /\ t \in DataTables
            /\ \E r \in DataRows(sys, t) : OffsetWord(sys, e, t) = N(r * sys.cs[t].sizeOf)
            /\ ArrGet(sys.c[t], OffsetWord(sys, e, t)) = N(e)
            /\ \A d \in Live(sys) \ {e} : OffsetWord(sys, d, t) # OffsetWord(sys, e, t)

\* the error insertRow throws when its scan finds no empty row
AllocatorFailure == "Illegal State: could not find empty slot but removeCounter > 0"

\* C28: no call of newEntity, addComponent, addComponents, removeComponent or
\* removeEntity on a live entity, on a new engine or one built by fromJSON,
\* ends with the allocator failure.
C28_NoAllocatorFailure == err # AllocatorFailure

\* C29: every live entity id is below the entity table's rowCounter.
C29_LiveBelowRowCounter == \A i \in Live(sys) : i < sys.s.rowCounter

\* the ids of an export
ImportedIds(json) == { IdOf(json[k]) \div Q : k \in 1..Len(json) }

\* the ids below the highest of ids that are not among them
Gaps(ids) == IF ids = {} THEN {} ELSE (0..Max(ids)) \ ids

\* C30: after fromJSON the entity table's removeCounter is the number of ids
\* below the highest imported id that the export does not hold, which is the
\* number of rows below rowCounter that are not live.
C30_ImportCountsGaps ==
    (call.op = "fromJSON" /\ err = "") =>
        /\ sys.s.removeCounter = Cardinality(Gaps(ImportedIds(call.template)))
        /\ sys.s.removeCounter
             = Cardinality({ i \in 0..(sys.s.rowCounter - 1) : ~exists(sys, N(i)) })

\* C31: on an engine fromJSON returned, newEntity() does not throw; it returns
\* the lowest gap id of the import when there is one and otherwise the id after
\* the highest imported id, and that entity exists afterwards.
C31_NewEntityAfterImport ==
    [][ (/\ call.op = "fromJSON" /\ err = ""
         /\ call'.op = "newEntity" /\ call'.entity = -1) =>
          LET ids == ImportedIds(call.template)
          IN  /\ err' = ""
              /\ ret' = N(IF Gaps(ids) # {} THEN Min(Gaps(ids))
                          ELSE IF ids = {} THEN 0 ELSE Max(ids) + 1)
              /\ exists(sys', ret') ]_vars

\* entity i has in s2 the mask words and offset words it has in s1
SameWords(s1, s2, i) ==
    \A t \in Tables :
        /\ MaskWord(s2, i, t) = MaskWord(s1, i, t)
        /\ OffsetWord(s2, i, t) = OffsetWord(s1, i, t)

\* the live entities other than e have in s2 the words, data rows and field
\* values they have in s1
OthersKept(s1, s2, e) ==
    /\ \A d \in Live(s1) \ {e} : SameWords(s1, s2, d)
    /\ \A t \in DataTables : \A k \in RowsOfOthers(s1, t, e) : s2.c[t][k] = s1.c[t][k]
    /\ \A p \in { q \in HeldFields(s1) : q[1] # e } :
         getValue(s2, N(p[1]), p[2]) = getValue(s1, N(p[1]), p[2])

\* addComponent(e, c) and then removeComponent(e, c) returned and gave s2
Restored(s1, r2, e) == r2.err = "" => SameWords(s1, r2.sys, e) /\ OthersKept(s1, r2.sys, e)

\* C32: for a live entity e without component c, addComponent(e, c) followed
\* by removeComponent(e, c) restores the mask words and offset words of e and
\* leaves the words, back-references and field values of the other live
\* entities as they were.
C32_AddThenRemove ==
    \A e \in Live(sys), c \in CompSet :
        (~HasComponent(sys, e, c) /\ addComponent(sys, N(e), c).err = "") =>
            Restored(sys, removeComponent(addComponent(sys, N(e), c).sys, N(e), c), e)

FieldComponents(t) ==
    { c \in CompSet : components[c].arrayIndex = t /\ Len(components[c].propNames) > 0 }

\* C36: in every reachable state, for every live entity e and every table t,
\* e's offset word for t is not -1 if and only if e's mask word for t contains
\* the bit of at least one component of t that has fields.
C36_OffsetIffFields ==
    \A e \in Live(sys), t \in Tables :
        (OffsetWord(sys, e, t) # N(-1)) <=> (\E c \in FieldComponents(t) : HasComponent(sys, e, c))

\* C34 (entity table): removeRow changes the row's mask word only by clearing
\* bit 0, every other bit, bits 31 to 52 included, keeping its value, and
\* removeCounter grows by 1 and skipOnRemove becomes min(skipOnRemove, row).
C34_RemoveRowClearsBit0 ==
    [][ call'.op = "removeEntity" =>
          /\ ~sys'.neg
          /\ sys'.word = sys.word \ {0}
          /\ sys'.removeCounter = sys.removeCounter + 1
          /\ sys'.skipOnRemove = IF N(0) < sys.skipOnRemove THEN N(0) ELSE sys.skipOnRemove ]_vars

\* entity e is live in s and has all the components of names
Matches(s, e, names) ==
    e \in Live(s) /\ \A k \in 1..Len(names) : HasComponent(s, e, names[k])

\* the firing condition of registration h for the mutation of e from s1 to s2
Due(h, s1, s2, e) ==
    IF h.kind = "enter"
    THEN Matches(s2, e, h.names) /\ ~Matches(s1, e, h.names)
    ELSE Matches(s1, e, h.names) /\ ~Matches(s2, e, h.names)

RECURSIVE InRegistrationOrder(_)
\* <<kind, fn>> of the registrations of H, earliest first
InRegistrationOrder(H) ==
    IF H = {} THEN <<>>
    ELSE LET h == CHOOSE x \in H : \A y \in H : x.at <= y.at
         IN  <<[kind |-> h.kind, fn |-> h.fn]>> \o InRegistrationOrder(H \ {h})

\* <<kind, fn>> of the invocations a call made, in order
Invoked(calls) == [ k \in 1..Len(calls) |-> [kind |-> calls[k].kind, fn |-> calls[k].fn] ]

\* the entity a creation or removal acted on
Mutated(c, r) == IF c.op = "newEntity" THEN r \div Q ELSE c.entity

\* C35: when one mutation satisfies the firing condition of several registered
\* callbacks, each of them is invoked exactly once and in the order in which
\* they were registered, also after earlier registrations were deregistered.
C35_InvokedInRegistrationOrder ==
    [][ LET due == { h \in handles : Due(h, sys, sys', Mutated(call', ret')) }
        IN  (/\ call'.op \in {"newEntity", "removeEntity"}
             /\ err' = ""
             /\ Cardinality(due) >= 2) =>
                Invoked(fired') = InRegistrationOrder(due) ]_vars

\* the errors of a template that names a field no component declares
UnknownFieldErrors == { NoSuchProp(name) : name \in LookupNames \ PropSet }

\* C37: when newEntity(template) or addComponents(e, template) fails because
\* the template names a field that no component declares, the engine state is
\* the one before the call (no live entity more, no row allocated, no word,
\* field value or allocator counter changed) and no callback was invoked.
C37_UnknownFieldLeavesState ==
    [][ (/\ call'.op \in {"newEntity", "addComponents"}
         /\ err' \in UnknownFieldErrors) =>
           /\ sys' = sys
           /\ fired' = <<>> ]_vars

\* the ids that were handed out and removed, and not handed out again since
RemovedIds(s, held) == { i \in Rows(s) : i < s.s.rowCounter /\ i \notin held }

\* C38: after removeEntity(e), and until newEntity returns the id e again,
\* has(e, [C]) returns false for every component name C.
C38_RemovedHasNothing ==
    \A e \in RemovedIds(sys, issued), c \in CompSet : has(sys, <<>>, N(e), <<c>>) = "false"

\* the callback that re-adds the component was invoked by the call
Readded(calls) == \E k \in 1..Len(calls) : calls[k].kind = "exit" /\ calls[k].fn = "readd"

\* e has c together with a row of c's table whose column 0 holds e
HoldsRow(s, e, c) ==
    LET t == components[c].arrayIndex
    IN  /\ HasComponent(s, e, c)
        /\ OffsetWord(s, e, t) # N(-1)
        /\ ArrGet(s.c[t], OffsetWord(s, e, t)) = N(e)

\* C39: when an exit callback invoked during removeComponent(e, C) re-adds C
\* to e, then after removeComponent returns either e lacks C, or e has C
\* together with an allocated row of C's table whose column 0 holds e.
C39_ReaddedIsConsistent ==
    [][ (call'.op = "removeComponent" /\ err' = "" /\ Readded(fired')) =>
            \/ ~HasComponent(sys', call'.entity, call'.name)
            \/ HoldsRow(sys', call'.entity, call'.name) ]_vars

\* what an earlier has call on another engine of the module, one with another
\* number of tables, can have left in the module-level array `tmp`
TmpOfOthers == { tmp \in TmpArrays : tmp # <<>> /\ Len(tmp) # maskSize }

\* C40: the result of has(e, names) depends only on the engine's state and the
\* call's arguments: has calls made earlier on another engine instance with a
\* different number of tables never change it.
C40_HasIgnoresOtherEngines ==
    \A e \in Live(sys), names \in NameLists, tmp \in TmpOfOthers :
        has(sys, tmp, N(e), names) = has(sys, <<>>, N(e), names)

====
